---- MODULE Spec2Model ----
(***************************************************************************)
(* Fact store of the test-impact analyzer: the five relational tables, the *)
(* per-stage JSON artifacts, the stage loaders (deterministic/),           *)
(* the incremental re-indexer and the duplicate remover                    *)
(* (git_diff_processor/utils).                                             *)
(***************************************************************************)
EXTENDS Integers, Sequences, FiniteSets, Bags, TLC

\* Python None / SQL NULL
None == "None"

(***************************************************************************)
(* Paths.  A path is the sequence of its components.  "dl" and "od" are    *)
(* two real directories holding a copy of the test tree (a download and a  *)
(* cloud-synced mirror); "lnk" is a symbolic link to "dl".                 *)
(***************************************************************************)
RealRoots == {"dl", "od"}
Roots == RealRoots \cup {"lnk"}

\* Path.resolve(): follows symbolic links (the tree's only link is lnk -> dl)
Resolve(p) == [i \in 1..Len(p) |-> IF p[i] = "lnk" THEN "dl" ELSE p[i]]

\* the test files a test tree may hold, relative to <root>/test_repository,
\* in the order sorted() gives them
RelFiles == << <<"integration", "test_b.py">>, <<"unit", "test_a.py">> >>

RepoPath(root) == <<root, "test_repository">>

AllDiskFiles == {RepoPath(r) \o RelFiles[i] : r \in RealRoots, i \in 1..Len(RelFiles)}

Last(s) == s[Len(s)]

(***************************************************************************)
(* Source files as the AST extractors see them: the class definitions with *)
(* their method names, and the module-level function definitions.          *)
(*   unit/test_a.py        class TestA: setUp, test_x                      *)
(*   integration/test_b.py def test_z (defined twice), def helper          *)
(***************************************************************************)
FileContent(p) ==
    IF Last(p) = "test_a.py"
    THEN [classes |-> << [name |-> "TestA", bases |-> <<>>,
                          methods |-> <<"setUp", "test_x">>] >>,
          functions |-> <<>>]
    ELSE [classes |-> <<>>,
          functions |-> <<"test_z", "test_z", "helper">>]

\* name.startswith('test_'), over the names of the file universe
StartsWithTestUnderscore(n) == n \in {"test_x", "test_z"}

\* name.startswith('Test'), and 'Test' in base
StartsWithTest(n) == n \in {"TestA"}
ContainsTest(b) == b \in {"TestA", "TestCase", "unittest.TestCase"}

RECURSIVE Flatten(_)
Flatten(ss) == IF ss = <<>> THEN <<>> ELSE Head(ss) \o Flatten(Tail(ss))

\* extract_test_classes: classes named Test* or with a *Test* base
extract_test_classes(c) ==
    SelectSeq(c.classes,
              LAMBDA k : StartsWithTest(k.name)
                         \/ \E i \in 1..Len(k.bases) : ContainsTest(k.bases[i]))

\* extract_test_methods: every function definition of the tree (ast.walk:
\* module level first, then class bodies) whose name starts with test_
extract_test_methods(c) ==
    SelectSeq(c.functions \o Flatten([i \in 1..Len(c.classes) |-> c.classes[i].methods]),
              StartsWithTestUnderscore)

\* the tests of one file, as both stage 3 and the re-indexer list them:
\* the test_ methods of the test classes when there is a test class,
\* else the test functions as free functions (class_name None)
ClassTests(k) ==
    LET ms == SelectSeq(k.methods, StartsWithTestUnderscore)
    IN  [i \in 1..Len(ms) |-> [class_name |-> k.name, method_name |-> ms[i]]]

TestsOf(c) ==
    LET tc == extract_test_classes(c)
        fm == extract_test_methods(c)
    IN  IF tc # <<>>
        THEN Flatten([i \in 1..Len(tc) |-> ClassTests(tc[i])])
        ELSE [i \in 1..Len(fm) |-> [class_name |-> None, method_name |-> fm[i]]]

FileTests(p) == TestsOf(FileContent(p))

\* _categorize_directory and extract_test_type_enhanced: substring tests on
\* the path, first match wins
InPath(p, names) == \E i \in 1..Len(p) : p[i] \in names

extract_test_type_enhanced(p) ==
    IF InPath(p, {"e2e", "end_to_end", "endtoend", "end-to-end"}) THEN "e2e"
    ELSE IF InPath(p, {"integration"}) THEN "integration"
    ELSE "unit"

(***************************************************************************)
(* test_id.  An id is kept as the number n of "test_NNNN"; the store       *)
(* compares ids as strings, so every comparison goes through the text.     *)
(***************************************************************************)
IdWidth == 4

RECURSIVE Digits(_)
Digits(n) == IF n < 10 THEN <<n>> ELSE Append(Digits(n \div 10), n % 10)

RECURSIVE PadLeft(_, _)
PadLeft(s, w) == IF Len(s) >= w THEN s ELSE PadLeft(<<0>> \o s, w)

\* f"{n:04d}"
FormatId(n) == PadLeft(Digits(n), IdWidth)

RECURSIVE ParseDigits(_)
ParseDigits(s) == IF s = <<>> THEN 0
                  ELSE 10 * ParseDigits(SubSeq(s, 1, Len(s) - 1)) + Last(s)

\* string comparison of two digit texts
RECURSIVE LexLess(_, _)
LexLess(a, b) ==
    IF a = <<>> THEN b # <<>>
    ELSE IF b = <<>> THEN FALSE
    ELSE IF Head(a) # Head(b) THEN Head(a) < Head(b)
    ELSE LexLess(Tail(a), Tail(b))

IdLess(m, n) == LexLess(FormatId(m), FormatId(n))

\* SELECT test_id ... ORDER BY test_id DESC LIMIT 1, then
\* int(last_id.split('_')[1]) + 1; 1 on an empty registry
NextTestIdCounter(reg) ==
    IF reg = {} THEN 1
    ELSE LET last == CHOOSE r \in reg : \A s \in reg : ~IdLess(r.test_id, s.test_id)
         IN  ParseDigits(FormatId(last.test_id)) + 1

(***************************************************************************)
(* State.                                                                  *)
(***************************************************************************)
VARIABLES
    disk,                  \* the test files that exist (resolved paths)
    registry_json,         \* outputs/03_test_registry.json: data.tests
    deps_json,             \* outputs/04_static_dependencies.json: data.test_dependencies
    function_calls_json,   \* outputs/04b_function_calls.json: data.test_function_mappings
    rev_json,              \* outputs/06_reverse_index.json: data.reverse_index
    metadata_json,         \* outputs/05_test_metadata.json: data.test_metadata
    test_registry,         \* table test_registry (primary key test_id)
    test_dependencies,     \* table test_dependencies (id SERIAL): a bag of rows
    reverse_index,         \* table reverse_index (id SERIAL): a bag of rows
    test_metadata,         \* table test_metadata (test_id UNIQUE)
    test_function_mapping, \* table test_function_mapping (id SERIAL): a bag of rows
    assigned,              \* history: every (test_id, test) ever written to test_registry
    loaded,                \* history: per loader, the artifact it last loaded with no failed batch
    crash_expected,        \* history: what the crashed loader's run would have stored
    before_drop,           \* history: reverse_index as it was when it was dropped
    pending,               \* per indexing run in progress: the rows it is about to write
    last_op,               \* history: the operation that ran last, with its inputs
    mode,                  \* test selection: the selector called and the caller that built its request
    file_changes,          \* test selection: parse_git_diff(...)['file_changes']
    classes_first,         \* test selection: per changed file, the class list(set(...)) lists first
    search_queries,        \* test selection: the request handed to the selector
    vector_backend,        \* test selection: the vector backend as the query finds it
    pc,                    \* test selection: the strategy the selector is about to run
    selection,             \* test selection: all_tests (in insertion order) and match_details
    issued,                \* test selection: the queries sent to the store and to the vector backend,
                           \*   and the warnings printed
    result,                \* test selection: the emitted result
    before_semantic,       \* history: selection as strategies 0-3 left it
    scoring,               \* scoring: a list of match reasons, a test type and their score
    commands,              \* test selection: the pytest commands made from the result
    lookup,                \* store query: a reverse_index, the class asked for, the rows returned
    parsing,               \* one call of parse_file: the file's behaviour, the attempts, the waits
    parsers,               \* the parser registry: extension -> parser, and the warnings printed
    command,               \* one run of a command against the fact store: its steps and exit code
    embeddings,            \* a vector backend: what it holds, and the calls of store_embeddings
    extraction             \* stage 3 over parsed files: the files, the counter, the rows

vars == <<disk, registry_json, deps_json, function_calls_json, rev_json, metadata_json,
          test_registry, test_dependencies, reverse_index, test_metadata,
          test_function_mapping, assigned, loaded, crash_expected,
          before_drop, pending, last_op, mode, file_changes, classes_first, search_queries,
          vector_backend, pc, selection, issued, result, before_semantic, scoring, commands, lookup,
          parsing, parsers, command, embeddings, extraction>>

side_vars == <<parsing, parsers, command, embeddings, extraction>>

query_vars == <<side_vars, mode, file_changes, classes_first, search_queries, vector_backend, pc,
                selection, issued, result, before_semantic, scoring, commands, lookup>>

(***************************************************************************)
(* Stage 3: build the test registry (test_analysis/03_build_test_registry) *)
(***************************************************************************)
\* scan_directory(root): the test files under root, sorted
scan_directory(d, root) ==
    SelectSeq([i \in 1..Len(RelFiles) |-> RepoPath(root) \o RelFiles[i]],
              LAMBDA p : Resolve(p) \in d)

TestRow(id, path, t) ==
    [test_id |-> id, file_path |-> path, class_name |-> t.class_name,
     method_name |-> t.method_name, test_type |-> extract_test_type_enhanced(path)]

\* extract_tests_from_file: every listed test gets the next counter value
tests_of_parsed_file(c, path, counter) ==
    LET ts == TestsOf(c)
    IN  [i \in 1..Len(ts) |-> TestRow(counter + i - 1, path, ts[i])]

extract_tests_from_file(path, counter) == tests_of_parsed_file(FileContent(path), path, counter)

\* build_test_registry: the files in scan order, the counter starting at 1
RECURSIVE BuildFrom(_, _)
BuildFrom(files, counter) ==
    IF files = <<>> THEN <<>>
    ELSE LET ft == extract_tests_from_file(Head(files), counter)
         IN  ft \o BuildFrom(Tail(files), counter + Len(ft))

\* TEST_REPO_PATH of the pipeline stages
TEST_REPO_ROOT == "dl"

build_test_registry(d) == BuildFrom(scan_directory(d, TEST_REPO_ROOT), 1)

(***************************************************************************)
(* test_registry writes (deterministic/utils/db_helpers.py)                *)
(***************************************************************************)
SeqToSet(s) == {s[i] : i \in 1..Len(s)}

\* INSERT ... ON CONFLICT (test_id) DO UPDATE, one statement for the batch:
\* a batch naming one test_id twice is refused by the store and rolled back
batch_insert_test_registry(reg, tests) ==
    IF \E i, j \in 1..Len(tests) : i # j /\ tests[i].test_id = tests[j].test_id
    THEN reg
    ELSE {r \in reg : \A i \in 1..Len(tests) : tests[i].test_id # r.test_id}
         \cup SeqToSet(tests)

\* `class_name or ''`
ClassOrEmpty(c) == IF c = None THEN "" ELSE c

(***************************************************************************)
(* Verification and incremental re-index                                   *)
(* (git_diff_processor/utils/indexing_utils.py)                            *)
(***************************************************************************)
\* verify_indexing_completeness: the resolved disk paths under the tree
\* that are not the resolved file_path of any registry row
missing_files(reg, d, root) ==
    LET on_disk == {Resolve(p) : p \in SeqToSet(scan_directory(d, root))}
        indexed == {Resolve(r.file_path) : r \in reg}
    IN  on_disk \ indexed

\* existing_tests: the keys (resolved path, class or '', method) of the rows
existing_tests(reg) ==
    {<<Resolve(r.file_path), ClassOrEmpty(r.class_name), r.method_name>> : r \in reg}

\* a pass that would not remember the keys it has numbered
RememberKey_Forgets(existing, key) == existing

\* existing_tests[key] = test_id: the key is remembered for the rest of the pass
RememberKey(existing, key) == existing \cup {key}

\* the loop body over one file's tests; st = [counter, existing, tests]
RECURSIVE ReindexTests(_, _, _)
ReindexTests(ts, path, st) ==
    IF ts = <<>> THEN st
    ELSE LET t   == Head(ts)
             key == <<Resolve(path), ClassOrEmpty(t.class_name), t.method_name>>
         IN  IF key \in st.existing
             THEN ReindexTests(Tail(ts), path, st)
             ELSE ReindexTests(Tail(ts), path,
                      [counter  |-> st.counter + 1,
                       existing |-> RememberKey(st.existing, key),
                       tests    |-> Append(st.tests, TestRow(st.counter, path, t))])

RECURSIVE ReindexFiles(_, _)
ReindexFiles(files, st) ==
    IF files = <<>> THEN st
    ELSE ReindexFiles(Tail(files), ReindexTests(FileTests(Head(files)), Head(files), st))

\* all_tests of reindex_missing_files, the missing files taken in `order`
reindex_all_tests(reg, order) ==
    ReindexFiles(order, [counter  |-> NextTestIdCounter(reg),
                         existing |-> existing_tests(reg),
                         tests    |-> <<>>]).tests

\* the orders in which a Python set of paths can be iterated
Orders(S) == {o \in [1..Cardinality(S) -> S] : \A i, j \in DOMAIN o : i # j => o[i] # o[j]}

\* test_registry after reindex_missing_files
reindex_missing_files(reg, d, root, order) ==
    LET all_tests == reindex_all_tests(reg, order)
    IN  IF all_tests = <<>> THEN reg ELSE batch_insert_test_registry(reg, all_tests)

(***************************************************************************)
(* Duplicate detection and removal                                         *)
(* (git_diff_processor/utils/deduplicate_tests.py)                         *)
(***************************************************************************)
\* index of the first component that holds 'test_repository', 0 if none
FirstRepoIndex(p) ==
    IF \E i \in 1..Len(p) : p[i] = "test_repository"
    THEN CHOOSE i \in 1..Len(p) :
            p[i] = "test_repository" /\ \A j \in 1..(i - 1) : p[j] # "test_repository"
    ELSE 0

_normalize_path_for_dedup(p) ==
    LET i == FirstRepoIndex(p)
    IN  IF i > 0 THEN SubSeq(p, i + 1, Len(p))
        ELSE IF Len(p) > 1 /\ p[Len(p) - 1] \in {"unit", "integration", "e2e", "tests", "test"}
             THEN <<p[Len(p) - 1], Last(p)>>
             ELSE <<Last(p)>>

DedupKey(r) ==
    <<_normalize_path_for_dedup(r.file_path), ClassOrEmpty(r.class_name), r.method_name>>

\* find_duplicate_tests: the groups of more than one row
test_groups(reg, key) == {r \in reg : DedupKey(r) = key}

duplicates(reg) == {DedupKey(r) : r \in {x \in reg : Cardinality(test_groups(reg, DedupKey(x))) > 1}}

\* a removal that would keep the last row of the sorted group
KeptRow_Highest(group) == CHOOSE r \in group : \A s \in group : ~IdLess(r.test_id, s.test_id)

\* sorted(tests, key=test_id)[0]: the row kept
KeptRow(group) == CHOOSE r \in group : \A s \in group : ~IdLess(s.test_id, r.test_id)

test_ids_to_keep(reg) == {KeptRow(test_groups(reg, k)).test_id : k \in duplicates(reg)}

test_ids_to_remove(reg) ==
    UNION {{r.test_id : r \in test_groups(reg, k) \ {KeptRow(test_groups(reg, k))}} :
           k \in duplicates(reg)}

\* a DELETE that removes no row
DeleteByTestId_NoRow(table, ids) == table

\* DELETE FROM <table> WHERE test_id IN (...)
DeleteByTestId(table, ids) == {r \in table : r.test_id \notin ids}

(***************************************************************************)
(* Stage 4: static dependencies                                            *)
(* (test_analysis/04_extract_static_dependencies.py)                       *)
(***************************************************************************)
\* extract_imports and extract_string_references of a file:
\*   test_a.py  import pytest; from agent.core import Agent;
\*              @patch('agent.core.run')
\*   test_b.py  import os; import api
FileImports(p) ==
    IF Last(p) = "test_a.py"
    THEN [all_imports  |-> {"pytest", "agent.core"},
          from_imports |-> << [module |-> "agent.core", names |-> <<"Agent">>] >>,
          string_refs  |-> <<"agent.core.run">>]
    ELSE [all_imports  |-> {"os", "api"},
          from_imports |-> <<>>,
          string_refs  |-> <<>>]

\* import_name.startswith(f) for a name f of TEST_FRAMEWORK_IMPORTS, and
\* import_name.split('.')[0], over the names the files use
StartsWithTestFramework(n) == n \in {"pytest"}
FirstPart(n) == IF n \in {"agent.core", "agent.core.run"} THEN "agent" ELSE n
stdlib_modules == {"os", "sys", "pathlib", "json", "datetime", "typing", "collections",
                   "itertools", "functools", "asyncio", "abc", "dataclasses", "enum",
                   "logging", "re"}

is_production_import(n) == ~StartsWithTestFramework(n) /\ FirstPart(n) \notin stdlib_modules

\* sorted() over the reference names of the files
RefOrder == <<"Agent", "agent.core", "agent.core.run", "api">>
SortedRefs(S) == SelectSeq(RefOrder, LAMBDA n : n \in S)

\* one element of test_dependencies, for one test of the registry artifact
DependencyOf(test) ==
    LET fi   == FileImports(test.file_path)
        pi   == {n \in fi.all_imports : is_production_import(n)}
        psr  == {n \in SeqToSet(fi.string_refs) : is_production_import(n)}
        pfi  == SelectSeq(fi.from_imports, LAMBDA f : is_production_import(f.module))
        mods == {pfi[i].module : i \in 1..Len(pfi)}
        nms  == UNION {SeqToSet(pfi[i].names) : i \in 1..Len(pfi)}
    IN  [test_id            |-> test.test_id,
         file_path          |-> test.file_path,
         class_name         |-> test.class_name,
         method_name        |-> test.method_name,
         referenced_classes |-> SortedRefs(pi \cup psr \cup mods \cup nms),
         reference_types    |-> [n \in pi \cup psr \cup mods |->
                                    IF n \in psr THEN "string_ref" ELSE "direct_import"]]

build_dependency_mapping(tests) == [i \in 1..Len(tests) |-> DependencyOf(tests[i])]

(***************************************************************************)
(* Stage 6: reverse index (test_analysis/06_build_reverse_index.py)        *)
(***************************************************************************)
\* the entries appended to reverse_index[ref_class], in append order
RevEntry(td, c) ==
    [production_class |-> c,
     test_id          |-> td.test_id,
     file_path        |-> td.file_path,
     reference_type   |-> IF c \in DOMAIN td.reference_types
                          THEN td.reference_types[c] ELSE "direct_import"]

RevAppends(deps) ==
    Flatten([i \in 1..Len(deps) |->
                [j \in 1..Len(deps[i].referenced_classes) |->
                    RevEntry(deps[i], deps[i].referenced_classes[j])]])

\* sorted(tests, key=test_id): a stable insertion sort on the id text
RECURSIVE InsertSorted(_, _)
InsertSorted(s, e) ==
    IF s = <<>> THEN <<e>>
    ELSE IF IdLess(e.test_id, Head(s).test_id) THEN <<e>> \o s
    ELSE <<Head(s)>> \o InsertSorted(Tail(s), e)

RECURSIVE SortByTestId(_)
SortByTestId(s) ==
    IF s = <<>> THEN <<>>
    ELSE InsertSorted(SortByTestId(SubSeq(s, 1, Len(s) - 1)), Last(s))

\* the keys of the dict, in insertion order
RECURSIVE FirstOccurrences(_, _)
FirstOccurrences(apps, seen) ==
    IF apps = <<>> THEN <<>>
    ELSE IF Head(apps).production_class \in seen THEN FirstOccurrences(Tail(apps), seen)
    ELSE <<Head(apps).production_class>>
         \o FirstOccurrences(Tail(apps), seen \cup {Head(apps).production_class})

\* build_reverse_index: [production_class, tests] in dict order
build_reverse_index(deps) ==
    LET apps == RevAppends(deps)
        keys == FirstOccurrences(apps, {})
    IN  [k \in 1..Len(keys) |->
            [production_class |-> keys[k],
             tests |-> SortByTestId(SelectSeq(apps, LAMBDA e : e.production_class = keys[k]))]]

(***************************************************************************)
(* Stages 5 and 7: function calls and metadata, one element per test       *)
(***************************************************************************)
\* extract_function_mappings_from_file: test_a.py patches agent.core.run;
\* test_b.py calls api.get() on an object no from-import resolves
FunctionMappingOf(test) ==
    IF Last(test.file_path) = "test_a.py"
    THEN << [test_id |-> test.test_id, module_name |-> "agent.core", function_name |-> "run",
             call_type |-> "patch_ref", source |-> "patch_ref"],
            [test_id |-> test.test_id, module_name |-> None, function_name |-> "helper",
             call_type |-> "function", source |-> "method_call"] >>
    ELSE << [test_id |-> test.test_id, module_name |-> "api", function_name |-> "get",
             call_type |-> "method", source |-> "method_call"] >>

build_function_mapping(tests) == Flatten([i \in 1..Len(tests) |-> FunctionMappingOf(tests[i])])

build_test_metadata(tests) ==
    [i \in 1..Len(tests) |->
        [test_id |-> tests[i].test_id, description |-> "", pattern |-> "test_prefix"]]

(***************************************************************************)
(* Loaders (deterministic/02..05 and utils/db_helpers.py)                  *)
(***************************************************************************)
\* batch_size of the loaders (100 and 50 in the code; 2 for artifacts of 3 to 5 rows)
BatchSize == 2

\* prepare_dependency_data: one row per (test, referenced class)
prepare_dependency_data(deps) ==
    Flatten([i \in 1..Len(deps) |->
                [j \in 1..Len(deps[i].referenced_classes) |->
                    [test_id |-> deps[i].test_id,
                     referenced_class |-> deps[i].referenced_classes[j],
                     import_type |-> None]]])

\* prepare_reverse_index_data: one row per (production class, test)
prepare_reverse_index_data(rev) ==
    Flatten([k \in 1..Len(rev) |->
                [j \in 1..Len(rev[k].tests) |->
                    [production_class |-> rev[k].production_class,
                     test_id          |-> rev[k].tests[j].test_id,
                     test_file_path   |-> rev[k].tests[j].file_path,
                     reference_type   |-> rev[k].tests[j].reference_type]]])

\* prepare_function_mapping_data: rows without module_name are dropped
prepare_function_mapping_data(fms) ==
    SelectSeq(fms, LAMBDA m : m.module_name # None /\ m.function_name # None)

\* child tables declared without the foreign key
ForeignKeyOk_Unchecked(reg, rows) == TRUE

\* FOREIGN KEY (test_id) REFERENCES test_registry(test_id)
ForeignKeyOk(reg, rows) ==
    \A i \in 1..Len(rows) : \E r \in reg : r.test_id = rows[i].test_id

\* The tables keyed by a SERIAL id only (test_dependencies, reverse_index,
\* test_function_mapping) are bags of rows: the surrogate id and created_at
\* are left out, two rows alike in every other column count twice.
SeqToBag(rows) ==
    [r \in SeqToSet(rows) |-> Cardinality({i \in 1..Len(rows) : rows[i] = r})]

\* batch_insert_test_dependencies, batch_insert_reverse_index: a plain INSERT
\* of the batch in one statement; a foreign-key violation rolls the batch back
batch_insert(table, batch, reg) ==
    IF ForeignKeyOk(reg, batch) THEN table (+) SeqToBag(batch) ELSE table

\* the loader's loop: `n` batches of the rows, from batch number `from`
RECURSIVE LoadBatches(_, _, _, _, _)
LoadBatches(table, rows, reg, from, n) ==
    IF n = 0 \/ (from - 1) * BatchSize >= Len(rows) THEN table
    ELSE LET lo == (from - 1) * BatchSize + 1
             hi == IF from * BatchSize > Len(rows) THEN Len(rows) ELSE from * BatchSize
         IN  LoadBatches(batch_insert(table, SubSeq(rows, lo, hi), reg), rows, reg,
                         from + 1, n - 1)

NumBatches(rows) == (Len(rows) + BatchSize - 1) \div BatchSize

\* load_*_to_database: every batch
LoadAll(table, rows, reg) == LoadBatches(table, rows, reg, 1, NumBatches(rows))

\* load_metadata_to_database: INSERT ... ON CONFLICT (test_id) DO UPDATE per
\* batch, under the same foreign key
upsert_metadata_batch(table, batch, reg) ==
    IF ForeignKeyOk(reg, batch)
    THEN {m \in table : \A i \in 1..Len(batch) : batch[i].test_id # m.test_id}
         \cup SeqToSet(batch)
    ELSE table

RECURSIVE LoadMetadataBatches(_, _, _, _)
LoadMetadataBatches(table, rows, reg, from) ==
    IF (from - 1) * BatchSize >= Len(rows) THEN table
    ELSE LET lo == (from - 1) * BatchSize + 1
             hi == IF from * BatchSize > Len(rows) THEN Len(rows) ELSE from * BatchSize
         IN  LoadMetadataBatches(upsert_metadata_batch(table, SubSeq(rows, lo, hi), reg),
                                 rows, reg, from + 1)

\* load_tests_to_database: the registry artifact, batch by batch
RECURSIVE LoadRegistryBatches(_, _, _)
LoadRegistryBatches(reg, rows, from) ==
    IF (from - 1) * BatchSize >= Len(rows) THEN reg
    ELSE LET lo == (from - 1) * BatchSize + 1
             hi == IF from * BatchSize > Len(rows) THEN Len(rows) ELSE from * BatchSize
         IN  LoadRegistryBatches(batch_insert_test_registry(reg, SubSeq(rows, lo, hi)),
                                 rows, from + 1)

(***************************************************************************)
(* History bookkeeping (not program state)                                 *)
(***************************************************************************)
Op(op, kind, root, ids) == [op |-> op, kind |-> kind, root |-> root, ids |-> ids]

Assignments(rows) == {[test_id |-> r.test_id, test |-> DedupKey(r)] : r \in rows}

artifacts == <<registry_json, deps_json, function_calls_json, rev_json, metadata_json>>
children  == <<test_dependencies, reverse_index, test_metadata, test_function_mapping>>
load_hist == <<loaded, crash_expected, before_drop>>

NothingLoaded == [registry |-> <<>>, deps |-> <<>>, rev |-> <<>>, fm |-> <<>>, md |-> <<>>]

\* the indexing runs that may overlap
Runs == {"run_a", "run_b"}
Idle == [active |-> FALSE, root |-> "", all_tests |-> <<>>]

NoCrash == [pending |-> FALSE, content |-> EmptyBag]

\* the cap on the rows of a table without a natural key
MaxRows == 10

\* no test selection in progress
NoSelection == [all_tests |-> <<>>, match_details |-> <<>>]
NoneIssued == [store |-> 0, vector |-> 0, warnings |-> 0]
NoMode == [selector |-> "none", caller |-> "none"]
NoRequest == [exact_matches |-> {}, module_matches |-> {}, file_patterns |-> {},
              test_file_candidates |-> {}, changed_functions |-> <<>>]
NoBackend == [state |-> "ok", hits |-> <<>>]
NoCommands == <<>>
NoParsing == [parser |-> None, behaviour |-> <<>>, attempt |-> 0, waits |-> <<>>,
              returned |-> None, pc |-> "idle"]
NoParsers == [parsers |-> <<>>, extensions |-> <<>>, warned |-> {}, registered |-> <<>>]
NoCommand == [name |-> None, input |-> None, store |-> "up", pool |-> FALSE, pc |-> "idle",
              printed |-> <<>>, failed_at |-> None, exit_code |-> None]
NoEmbeddings == [backend |-> None, rows |-> {}, held |-> {}, counted |-> <<>>,
                 returned |-> <<>>, calls |-> 0]
NoExtraction == [files |-> <<>>, per_file |-> <<>>, counter |-> 1]
SideIdle ==
    /\ parsing = NoParsing
    /\ parsers = NoParsers
    /\ command = NoCommand
    /\ embeddings = NoEmbeddings
    /\ extraction = NoExtraction
NoLookup == [table |-> {}, asked |-> None, returned |-> <<>>]
NoScoring == [matches |-> <<>>, test_type |-> "", score |-> 0]
QueryIdle ==
    /\ mode = NoMode
    /\ file_changes = <<>>
    /\ classes_first = <<>>
    /\ search_queries = NoRequest
    /\ vector_backend = NoBackend
    /\ pc = "idle"
    /\ selection = NoSelection
    /\ issued = NoneIssued
    /\ result = <<>>
    /\ before_semantic = NoSelection
    /\ scoring = NoScoring
    /\ commands = NoCommands
    /\ lookup = NoLookup
    /\ SideIdle

(***************************************************************************)
(* Initial state: empty tables (01_create_tables.py), no artifact written, *)
(* the test repository on disk, its copy under the other root not yet.     *)
(***************************************************************************)
Init ==
    /\ disk = {p \in AllDiskFiles : p[1] = TEST_REPO_ROOT}
    /\ registry_json = <<>>
    /\ deps_json = <<>>
    /\ function_calls_json = <<>>
    /\ rev_json = <<>>
    /\ metadata_json = <<>>
    /\ test_registry = {}
    /\ test_dependencies = EmptyBag
    /\ reverse_index = EmptyBag
    /\ test_metadata = {}
    /\ test_function_mapping = EmptyBag
    /\ assigned = {}
    /\ loaded = NothingLoaded
    /\ crash_expected = [deps |-> NoCrash, rev |-> NoCrash]
    /\ before_drop = [dropped |-> FALSE, built |-> FALSE, content |-> EmptyBag]
    /\ pending = [run \in Runs |-> Idle]
    /\ last_op = Op("init", "", "", {})
    /\ QueryIdle

(***************************************************************************)
(* The environment: a test file appears on disk                            *)
(***************************************************************************)
CreateFile(p) ==
    /\ p \in AllDiskFiles \ disk
    /\ disk' = disk \cup {p}
    /\ last_op' = Op("create_file", "", p[1], {})
    /\ UNCHANGED <<query_vars, pending, artifacts, test_registry, children, assigned, load_hist>>

(***************************************************************************)
(* Analysis stages: each rewrites its artifact from its upstream           *)
(***************************************************************************)
BuildTestRegistry ==
    /\ registry_json' = build_test_registry(disk)
    /\ last_op' = Op("build_test_registry", "", "", {})
    /\ UNCHANGED <<query_vars, pending, disk, loaded, deps_json, function_calls_json, rev_json, metadata_json,
                   test_registry, children, assigned, crash_expected, before_drop>>

BuildDependencies ==
    /\ registry_json # <<>>
    /\ deps_json' = build_dependency_mapping(registry_json)
    /\ last_op' = Op("build_dependency_mapping", "", "", {})
    /\ UNCHANGED <<query_vars, pending, disk, loaded, registry_json, function_calls_json, rev_json, metadata_json,
                   test_registry, children, assigned, crash_expected, before_drop>>

BuildFunctionCalls ==
    /\ registry_json # <<>>
    /\ function_calls_json' = build_function_mapping(registry_json)
    /\ last_op' = Op("build_function_mapping", "", "", {})
    /\ UNCHANGED <<query_vars, pending, disk, loaded, registry_json, deps_json, rev_json, metadata_json,
                   test_registry, children, assigned, crash_expected, before_drop>>

BuildReverseIndex ==
    /\ deps_json # <<>>
    /\ rev_json' = build_reverse_index(deps_json)
    /\ last_op' = Op("build_reverse_index", "", "", {})
    /\ UNCHANGED <<query_vars, pending, disk, loaded, registry_json, deps_json, function_calls_json, metadata_json,
                   test_registry, children, assigned, crash_expected, before_drop>>

BuildMetadata ==
    /\ registry_json # <<>>
    /\ metadata_json' = build_test_metadata(registry_json)
    /\ last_op' = Op("build_test_metadata", "", "", {})
    /\ UNCHANGED <<query_vars, pending, disk, loaded, registry_json, deps_json, function_calls_json, rev_json,
                   test_registry, children, assigned, crash_expected, before_drop>>

(***************************************************************************)
(* Load stages (deterministic/02..05): each reads its artifact and writes  *)
(* its table batch by batch, committing after every batch                  *)
(***************************************************************************)
LoadTestRegistry ==
    /\ registry_json # <<>>
    /\ test_registry' = LoadRegistryBatches(test_registry, registry_json, 1)
    /\ assigned' = assigned \cup Assignments(SeqToSet(registry_json))
    /\ loaded' = [loaded EXCEPT !.registry = registry_json]
    /\ last_op' = Op("load_test_registry", "full", "", {})
    /\ UNCHANGED <<query_vars, pending, disk, artifacts, children, crash_expected, before_drop>>

DepRows == prepare_dependency_data(deps_json)

LoadDependencies ==
    /\ deps_json # <<>>
    /\ BagCardinality(test_dependencies) + Len(DepRows) <= MaxRows
    /\ test_dependencies' = LoadAll(test_dependencies, DepRows, test_registry)
    /\ loaded' = [loaded EXCEPT !.deps =
                      IF ForeignKeyOk(test_registry, DepRows) THEN deps_json ELSE <<>>]
    /\ crash_expected' = [crash_expected EXCEPT !.deps = NoCrash]
    /\ last_op' = Op("load_dependencies", "full", "", {})
    /\ UNCHANGED <<query_vars, pending, disk, artifacts, test_registry, reverse_index, test_metadata,
                   test_function_mapping, assigned, before_drop>>

\* the loader dies after committing its first k batches
CrashLoadDependencies(k) ==
    /\ deps_json # <<>>
    /\ k \in 1..(NumBatches(DepRows) - 1)
    /\ BagCardinality(test_dependencies) + Len(DepRows) <= MaxRows
    /\ ForeignKeyOk(test_registry, DepRows)
    /\ ~crash_expected.deps.pending
    /\ test_dependencies' = LoadBatches(test_dependencies, DepRows, test_registry, 1, k)
    /\ crash_expected' = [crash_expected EXCEPT !.deps =
           [pending |-> TRUE,
            content |-> LoadAll(test_dependencies, DepRows, test_registry)]]
    /\ loaded' = [loaded EXCEPT !.deps = <<>>]
    /\ last_op' = Op("load_dependencies", "crash", "", {})
    /\ UNCHANGED <<query_vars, pending, disk, artifacts, test_registry, reverse_index, test_metadata,
                   test_function_mapping, assigned, before_drop>>

RevRows == prepare_reverse_index_data(rev_json)

LoadReverseIndex ==
    /\ rev_json # <<>>
    /\ BagCardinality(reverse_index) + Len(RevRows) <= MaxRows
    /\ reverse_index' = LoadAll(reverse_index, RevRows, test_registry)
    /\ loaded' = [loaded EXCEPT !.rev =
                      IF ForeignKeyOk(test_registry, RevRows) THEN rev_json ELSE <<>>]
    /\ crash_expected' = [crash_expected EXCEPT !.rev = NoCrash]
    /\ before_drop' = [before_drop EXCEPT !.dropped = FALSE]
    /\ last_op' = Op("load_reverse_index", "full", "", {})
    /\ UNCHANGED <<query_vars, pending, disk, artifacts, test_registry, test_dependencies, test_metadata,
                   test_function_mapping, assigned>>

CrashLoadReverseIndex(k) ==
    /\ rev_json # <<>>
    /\ k \in 1..(NumBatches(RevRows) - 1)
    /\ BagCardinality(reverse_index) + Len(RevRows) <= MaxRows
    /\ ForeignKeyOk(test_registry, RevRows)
    /\ ~crash_expected.rev.pending
    /\ ~before_drop.dropped
    /\ reverse_index' = LoadBatches(reverse_index, RevRows, test_registry, 1, k)
    /\ crash_expected' = [crash_expected EXCEPT !.rev =
           [pending |-> TRUE,
            content |-> LoadAll(reverse_index, RevRows, test_registry)]]
    /\ loaded' = [loaded EXCEPT !.rev = <<>>]
    /\ last_op' = Op("load_reverse_index", "crash", "", {})
    /\ UNCHANGED <<query_vars, pending, disk, artifacts, test_registry, test_dependencies, test_metadata,
                   test_function_mapping, assigned, before_drop>>

\* create_reverse_index_table: DROP TABLE IF EXISTS ... CASCADE, CREATE TABLE
DropReverseIndex ==
    /\ reverse_index' = EmptyBag
    /\ before_drop' = [dropped |-> TRUE,
                       built   |-> /\ rev_json # <<>>
                                   /\ loaded.rev = rev_json
                                   /\ deps_json # <<>>
                                   /\ rev_json = build_reverse_index(deps_json),
                       content |-> reverse_index]
    /\ loaded' = [loaded EXCEPT !.rev = <<>>]
    /\ crash_expected' = [crash_expected EXCEPT !.rev = NoCrash]
    /\ last_op' = Op("create_reverse_index_table", "", "", {})
    /\ UNCHANGED <<query_vars, pending, disk, artifacts, test_registry, test_dependencies, test_metadata,
                   test_function_mapping, assigned>>

MdRows == metadata_json

LoadMetadata ==
    /\ metadata_json # <<>>
    /\ test_metadata' = LoadMetadataBatches(test_metadata, MdRows, test_registry, 1)
    /\ loaded' = [loaded EXCEPT !.md =
                      IF ForeignKeyOk(test_registry, MdRows) THEN metadata_json ELSE <<>>]
    /\ last_op' = Op("load_metadata", "full", "", {})
    /\ UNCHANGED <<query_vars, pending, disk, artifacts, test_registry, test_dependencies, reverse_index,
                   test_function_mapping, assigned, crash_expected, before_drop>>

\* batch_insert_test_function_mapping is imported by 04b_load_function_mappings.py
\* but defined nowhere in the repository; it is modelled by the documented
\* behaviour of a load stage: an UPSERT of the batch under the table's foreign key
batch_insert_test_function_mapping(table, batch, reg) ==
    LET fresh == SeqToSet(batch) \ BagToSet(table)
    IN  IF ForeignKeyOk(reg, batch) THEN table (+) SetToBag(fresh) ELSE table

RECURSIVE LoadFunctionMappingBatches(_, _, _, _)
LoadFunctionMappingBatches(table, rows, reg, from) ==
    IF (from - 1) * BatchSize >= Len(rows) THEN table
    ELSE LET lo == (from - 1) * BatchSize + 1
             hi == IF from * BatchSize > Len(rows) THEN Len(rows) ELSE from * BatchSize
         IN  LoadFunctionMappingBatches(
                 batch_insert_test_function_mapping(table, SubSeq(rows, lo, hi), reg),
                 rows, reg, from + 1)

FmRows == prepare_function_mapping_data(function_calls_json)

LoadFunctionMappings ==
    /\ function_calls_json # <<>>
    /\ test_function_mapping' =
           LoadFunctionMappingBatches(test_function_mapping, FmRows, test_registry, 1)
    /\ loaded' = [loaded EXCEPT !.fm =
                      IF ForeignKeyOk(test_registry, FmRows) THEN function_calls_json ELSE <<>>]
    /\ last_op' = Op("load_function_mappings", "full", "", {})
    /\ UNCHANGED <<query_vars, pending, disk, artifacts, test_registry, test_dependencies, reverse_index,
                   test_metadata, assigned, crash_expected, before_drop>>

(***************************************************************************)
(* Maintenance utilities (git_diff_processor/utils)                        *)
(***************************************************************************)
\* reindex_missing_files(conn, test_repo_path = root); `order` is the order
\* in which the set of missing files is iterated
Reindex(root, order) ==
    /\ root \in Roots
    /\ order \in Orders(missing_files(test_registry, disk, root))
    /\ LET all_tests == reindex_all_tests(test_registry, order)
       IN  /\ test_registry' = reindex_missing_files(test_registry, disk, root, order)
           /\ assigned' = assigned \cup Assignments(SeqToSet(all_tests))
           /\ last_op' = Op("reindex_missing_files", "", root,
                            {all_tests[i].test_id : i \in 1..Len(all_tests)})
    /\ UNCHANGED <<query_vars, pending, disk, artifacts, children, load_hist>>

\* DELETE FROM <table> WHERE test_id IN (...), on a table without natural key
DeleteRowsByTestId(table, ids) ==
    [r \in {x \in BagToSet(table) : x.test_id \notin ids} |-> table[r]]

\* a foreign key declared without ON DELETE CASCADE
OnDeleteCascade_None(table, reg) == table

\* reindex_missing_files in two steps, for runs that overlap: the run reads
\* the index (indexed files, existing_tests, the highest test_id) and numbers
\* the tests of the missing files ...
ReindexRead(run, root, order) ==
    /\ ~pending[run].active
    /\ root \in Roots
    /\ order \in Orders(missing_files(test_registry, disk, root))
    /\ pending' = [pending EXCEPT ![run] =
           [active |-> TRUE, root |-> root,
            all_tests |-> reindex_all_tests(test_registry, order)]]
    /\ last_op' = Op("reindex_read", run, root, {})
    /\ UNCHANGED <<query_vars, disk, artifacts, test_registry, children, assigned, load_hist>>

\* ... and later writes them: batch_insert_test_registry and conn.commit()
ReindexCommit(run) ==
    /\ pending[run].active
    /\ LET all_tests == pending[run].all_tests
       IN  /\ test_registry' = IF all_tests = <<>> THEN test_registry
                                ELSE batch_insert_test_registry(test_registry, all_tests)
           /\ assigned' = assigned \cup Assignments(SeqToSet(all_tests))
           /\ last_op' = Op("reindex_commit", run, pending[run].root,
                            {all_tests[i].test_id : i \in 1..Len(all_tests)})
    /\ pending' = [pending EXCEPT ![run] = Idle]
    /\ UNCHANGED <<query_vars, disk, artifacts, children, load_hist>>

\* ON DELETE CASCADE of the child tables' foreign keys
OnDeleteCascade(table, reg) ==
    [r \in {x \in BagToSet(table) : \E s \in reg : s.test_id = x.test_id} |-> table[r]]

\* remove_duplicate_tests(conn, dry_run)
RemoveDuplicates(dry_run) ==
    LET ids == test_ids_to_remove(test_registry)
    IN  /\ dry_run \in BOOLEAN
        /\ IF dry_run \/ ids = {}
           THEN UNCHANGED <<test_registry, children, loaded>>
           ELSE /\ test_registry' = DeleteByTestId(test_registry, ids)
                /\ reverse_index' =
                       OnDeleteCascade(DeleteRowsByTestId(reverse_index, ids), test_registry')
                /\ test_dependencies' =
                       OnDeleteCascade(DeleteRowsByTestId(test_dependencies, ids), test_registry')
                /\ test_metadata' =
                       {m \in DeleteByTestId(test_metadata, ids) :
                           \E s \in test_registry' : s.test_id = m.test_id}
                /\ test_function_mapping' =
                       OnDeleteCascade(test_function_mapping, test_registry')
                /\ loaded' = NothingLoaded
        /\ last_op' = Op("remove_duplicate_tests",
                         IF dry_run THEN "dry_run" ELSE "remove", "", ids)
        /\ UNCHANGED <<query_vars, pending, disk, artifacts, assigned, crash_expected, before_drop>>

(***************************************************************************)
(* Specifications                                                          *)
(***************************************************************************)
Stages ==
    \/ BuildTestRegistry
    \/ LoadTestRegistry
    \/ BuildDependencies
    \/ LoadDependencies
    \/ BuildFunctionCalls
    \/ LoadFunctionMappings
    \/ BuildMetadata
    \/ LoadMetadata
    \/ BuildReverseIndex
    \/ LoadReverseIndex

Maintenance ==
    \/ \E p \in AllDiskFiles : CreateFile(p)
    \/ \E root \in Roots :
         \E order \in Orders(missing_files(test_registry, disk, root)) : Reindex(root, order)
    \/ \E dry_run \in BOOLEAN : RemoveDuplicates(dry_run)

\* the whole pipeline and the duplicate remover, over a fixed test repository
Next == Stages \/ \E dry_run \in BOOLEAN : RemoveDuplicates(dry_run)

Spec == Init /\ [][Next]_vars

\* indexing only: stage 3 and its load, reindex, deduplication
NextIndex ==
    \/ BuildTestRegistry
    \/ LoadTestRegistry
    \/ Maintenance

SpecIndex == Init /\ [][NextIndex]_vars

\* the load stages with crashes and the drop of the reverse index
NextLoad ==
    \/ BuildTestRegistry
    \/ LoadTestRegistry
    \/ BuildDependencies
    \/ LoadDependencies
    \/ BuildReverseIndex
    \/ LoadReverseIndex
    \/ \E k \in 1..MaxRows : CrashLoadDependencies(k)
    \/ \E k \in 1..MaxRows : CrashLoadReverseIndex(k)
    \/ DropReverseIndex

SpecLoad == Init /\ [][NextLoad]_vars

\* indexing runs that overlap, over a growing test repository
NextConc ==
    \/ \E p \in AllDiskFiles : CreateFile(p)
    \/ \E run \in Runs, root \in Roots :
         \E order \in Orders(missing_files(test_registry, disk, root)) :
            ReindexRead(run, root, order)
    \/ \E run \in Runs : ReindexCommit(run)

SpecConc == Init /\ [][NextConc]_vars

IndexKey(r) == <<Resolve(r.file_path), ClassOrEmpty(r.class_name), r.method_name>>

\* C7: a removing deduplication leaves, for every (normalized path, class,
\* method) of the registry, exactly one row, and that row is the one of the
\* group that had the lowest test_id.
C7_DedupKeepsLowest ==
    [][(last_op'.op = "remove_duplicate_tests" /\ last_op'.kind = "remove") =>
         \A k \in {DedupKey(r) : r \in test_registry} :
            \E s \in test_groups(test_registry, k) :
               /\ test_groups(test_registry', k) = {s}
               /\ \A r \in test_groups(test_registry, k) : s.test_id <= r.test_id]_vars

C7_Witness ==
    /\ last_op.op = "remove_duplicate_tests"
    /\ last_op.kind = "remove"
    /\ Cardinality(last_op.ids) >= 2
    /\ test_registry # {}

InRegistry(id) == \E r \in test_registry : r.test_id = id

\* C2: every row of test_dependencies, reverse_index, test_function_mapping
\* and test_metadata carries a test_id that test_registry holds.
C2_ChildRowsReferenceRegistry ==
    /\ \A d \in BagToSet(test_dependencies) : InRegistry(d.test_id)
    /\ \A e \in BagToSet(reverse_index) : InRegistry(e.test_id)
    /\ \A f \in BagToSet(test_function_mapping) : InRegistry(f.test_id)
    /\ \A m \in test_metadata : InRegistry(m.test_id)

\* a dependency load from an artifact that names a removed test, into a
\* store whose four child tables hold rows
C2_Witness ==
    /\ last_op.op = "load_dependencies"
    /\ ~ForeignKeyOk(test_registry, DepRows)
    /\ test_dependencies # EmptyBag
    /\ reverse_index # EmptyBag
    /\ test_function_mapping # EmptyBag
    /\ test_metadata # {}

\* the rows of a child table that do not belong to the tests `ids`
Surviving(table, ids) == {r \in BagToSet(table) : r.test_id \notin ids}

Untouched(before, after, ids) ==
    /\ BagToSet(after) = Surviving(before, ids)
    /\ \A r \in BagToSet(after) : after[r] = before[r]

\* C8: a removing deduplication deletes the rows of the removed tests from
\* test_registry and from every child table, and leaves every other row of
\* these tables as it was.
C8_DedupCascades ==
    [][(last_op'.op = "remove_duplicate_tests" /\ last_op'.kind = "remove") =>
         /\ test_registry' = {r \in test_registry : r.test_id \notin last_op'.ids}
         /\ test_metadata' = {m \in test_metadata : m.test_id \notin last_op'.ids}
         /\ Untouched(test_dependencies, test_dependencies', last_op'.ids)
         /\ Untouched(reverse_index, reverse_index', last_op'.ids)
         /\ Untouched(test_function_mapping, test_function_mapping', last_op'.ids)]_vars

\* a removal from a fully loaded store: each child table holds what its
\* artifact lists for the surviving tests, and lost rows of removed tests
C8_Witness ==
    /\ last_op.op = "remove_duplicate_tests"
    /\ last_op.kind = "remove"
    /\ last_op.ids # {}
    /\ deps_json # <<>> /\ rev_json # <<>> /\ function_calls_json # <<>>
    /\ metadata_json # <<>>
    /\ BagToSet(test_dependencies) = {r \in SeqToSet(DepRows) : r.test_id \notin last_op.ids}
    /\ BagToSet(reverse_index) = {r \in SeqToSet(RevRows) : r.test_id \notin last_op.ids}
    /\ BagToSet(test_function_mapping) = {r \in SeqToSet(FmRows) : r.test_id \notin last_op.ids}
    /\ test_metadata = {r \in SeqToSet(MdRows) : r.test_id \notin last_op.ids}
    /\ \E i \in 1..Len(DepRows) : DepRows[i].test_id \in last_op.ids
    /\ \E i \in 1..Len(RevRows) : RevRows[i].test_id \in last_op.ids
    /\ \E i \in 1..Len(FmRows) : FmRows[i].test_id \in last_op.ids
    /\ \E i \in 1..Len(MdRows) : MdRows[i].test_id \in last_op.ids
    /\ test_dependencies # EmptyBag

(***************************************************************************)
(* Properties of the load stages (SpecLoad)                                *)
(***************************************************************************)
\* stages 4 and 6 are built, stage 6 from the current stage 4, and both are
\* loaded from these artifacts with no failed batch
Stages4And6BuiltAndLoaded ==
    /\ deps_json # <<>>
    /\ rev_json = build_reverse_index(deps_json)
    /\ loaded.deps = deps_json
    /\ loaded.rev = rev_json

\* C3: once stages 4 and 6 are built and loaded, every test_dependencies row
\* (t, c) has a reverse_index row (c, t) with the same reference type, and
\* every reverse_index row (c, t) has a test_dependencies row (t, c) with the
\* same reference type.
C3_DependencyMatchesReverseIndex ==
    Stages4And6BuiltAndLoaded =>
        /\ \A d \in BagToSet(test_dependencies) :
              \E e \in BagToSet(reverse_index) :
                 /\ e.production_class = d.referenced_class
                 /\ e.test_id = d.test_id
                 /\ e.reference_type = d.import_type
        /\ \A e \in BagToSet(reverse_index) :
              \E d \in BagToSet(test_dependencies) :
                 /\ d.referenced_class = e.production_class
                 /\ d.test_id = e.test_id
                 /\ d.import_type = e.reference_type

\* C4: a stage re-run on the artifact it was last run on changes nothing: a
\* build rewrites the same artifact, a load leaves its table with exactly the
\* rows it had.
C4_StagesIdempotent ==
    [][/\ (last_op'.op = "build_test_registry" /\ registry_json # <<>>)
            => registry_json' = registry_json
       /\ (last_op'.op = "build_dependency_mapping" /\ deps_json # <<>>)
            => deps_json' = deps_json
       /\ (last_op'.op = "build_reverse_index" /\ rev_json # <<>>)
            => rev_json' = rev_json
       /\ (last_op'.op = "load_test_registry" /\ loaded.registry = registry_json)
            => test_registry' = test_registry
       /\ (last_op'.op = "load_dependencies" /\ last_op'.kind = "full"
              /\ loaded.deps = deps_json)
            => test_dependencies' = test_dependencies
       /\ (last_op'.op = "load_reverse_index" /\ last_op'.kind = "full"
              /\ loaded.rev = rev_json)
            => reverse_index' = reverse_index]_vars

\* C5: when a reverse index that was built from the stage-4 artifact and
\* loaded is dropped, and then built again from stage 4 and loaded, the table
\* holds the rows it held before the drop.
C5_ReverseIndexRoundTrip ==
    [][(/\ last_op'.op = "load_reverse_index"
        /\ last_op'.kind = "full"
        /\ before_drop.dropped
        /\ before_drop.built
        /\ rev_json = build_reverse_index(deps_json))
         => /\ reverse_index' = before_drop.content
            /\ test_registry' = test_registry
            /\ test_dependencies' = test_dependencies]_vars

\* C6: the complete run that follows a crashed run of a load stage leaves the
\* table with the rows an uninterrupted run would have left.
C6_CrashedLoadConverges ==
    [][/\ (last_op'.op = "load_dependencies" /\ last_op'.kind = "full"
              /\ crash_expected.deps.pending)
            => test_dependencies' = crash_expected.deps.content
       /\ (last_op'.op = "load_reverse_index" /\ last_op'.kind = "full"
              /\ crash_expected.rev.pending)
            => reverse_index' = crash_expected.rev.content]_vars

IsPrefix(a, s) == Len(a) <= Len(s) /\ SubSeq(s, 1, Len(a)) = a
IsSuffix(a, s) == Len(a) <= Len(s) /\ SubSeq(s, Len(s) - Len(a) + 1, Len(s)) = a
IsSubstr(a, s) == \E i \in 0..(Len(s) - Len(a)) : SubSeq(s, i + 1, i + Len(a)) = a

\* s.replace(old, new)
RECURSIVE Replace(_, _, _)
Replace(s, old, new) ==
    IF Len(s) < Len(old) \/ s = <<>> THEN s
    ELSE IF SubSeq(s, 1, Len(old)) = old
         THEN new \o Replace(SubSeq(s, Len(old) + 1, Len(s)), old, new)
         ELSE <<Head(s)>> \o Replace(Tail(s), old, new)

\* s.split(sep)
RECURSIVE Split(_, _)
Split(s, sep) ==
    IF \A i \in 1..Len(s) : s[i] # sep THEN <<s>>
    ELSE LET k == CHOOSE i \in 1..Len(s) : s[i] = sep /\ \A j \in 1..(i - 1) : s[j] # sep
         IN  <<SubSeq(s, 1, k - 1)>> \o Split(SubSeq(s, k + 1, Len(s)), sep)

\* s.lower(), over the words of the file universe
Lower(s) == [i \in 1..Len(s) |-> IF s[i] = "Chat" THEN "chat" ELSE s[i]]

\* the orders in which a Python set of strings may be iterated
RECURSIVE Perms(_)
Perms(S) == IF S = {} THEN {<<>>}
            ELSE UNION {{<<x>> \o q : q \in Perms(S \ {x})} : x \in S}

\* the files a diff may touch
FileCore    == <<"backend", "/", "agent", "/", "core", ".py">>
FileApiCore == <<"backend", "/", "api", "/", "core", ".py">>
FileChat    == <<"frontend", "/", "src", "/", "Chat", ".tsx">>
FileStyle   == <<"web", "/", "app", ".css">>
FileFrontPy == <<"frontend", "/", "build", ".py">>

\* is_production_python_file
skip_dirs == {<<"mlartifacts">>, <<"artifacts">>, <<"data", "/">>, <<"chromadb", "_", "data">>,
              <<"node", "_", "modules">>, <<"__pycache__">>, <<".git">>, <<"venv">>, <<"env">>,
              <<"frontend">>, <<"static">>, <<"templates">>}

\* a filter that would not look at the directories of the path
is_production_python_file_AnyDir(file_path) ==
    IF file_path = <<>> THEN FALSE
    ELSE IF ~IsSuffix(<<".py">>, file_path) THEN FALSE
    ELSE ~IsSubstr(<<"test">>, Lower(file_path))

is_production_python_file(file_path) ==
    IF file_path = <<>> THEN FALSE
    ELSE IF ~IsSuffix(<<".py">>, file_path) THEN FALSE
    ELSE IF IsSubstr(<<"test">>, Lower(file_path)) THEN FALSE
    ELSE \A skip_dir \in skip_dirs : ~IsSubstr(skip_dir, Lower(file_path))

\* extract_production_classes_from_file: the module of the file and its top
\* package, as a set (the code returns list(set(candidates)))
extract_production_classes_from_file(file_path) ==
    IF file_path = <<>> \/ ~is_production_python_file(file_path) THEN {}
    ELSE LET dotted      == Replace(SubSeq(file_path, 1, Len(file_path) - 1), <<"/">>, <<".">>)
             module_name == IF IsPrefix(<<"backend", ".">>, dotted)
                            THEN SubSeq(dotted, 3, Len(dotted)) ELSE dotted
             parts       == Split(module_name, ".")
         IN  {module_name} \cup (IF Len(parts) > 1 THEN {parts[1]} ELSE {})

\* extract_test_file_candidates.  (No file stem of the universe holds an
\* underscore, so the camelCase candidate of strategy 5 never arises.)
extract_test_file_candidates(file_path) ==
    IF file_path = <<>> \/ ~IsSuffix(<<".py">>, file_path) THEN {}
    ELSE LET parts     == Split(SubSeq(file_path, 1, Len(file_path) - 1), "/")
             file_stem == parts[Len(parts)]
             nested    == IF Len(parts) > 1
                          THEN {<<"test", "_">> \o parts[Len(parts) - 1] \o <<"_">> \o file_stem
                                    \o <<".py">>}
                          ELSE {}
         IN  {<<"test", "_">> \o file_stem \o <<".py">>,
              <<"test", "_">> \o file_stem \o <<"_", "*", ".py">>} \cup nested

\* analyze_file_change_type
analyze_file_change_type(file_change) ==
    IF file_change.status = "deleted" THEN "deleted"
    ELSE IF file_change.status = "added" THEN "added"
    ELSE IF ~(file_change.changed_classes # <<>> \/ file_change.changed_methods # <<>>
              \/ file_change.additions > 0)
         THEN "comment_only"
    ELSE IF /\ file_change.changed_lines # <<>>
            /\ \A i \in 1..Len(file_change.changed_lines) : file_change.changed_lines[i] <= 50
            /\ file_change.changed_classes = <<>>
            /\ file_change.changed_methods = <<>>
         THEN "import_only"
    ELSE "code"

\* build_search_queries: the four lists are list(set(...)), kept as sets;
\* the dictionary has no 'changed_functions' key, so .get() on it gives
\* nothing
Searched(changes) ==
    {i \in 1..Len(changes) :
        /\ analyze_file_change_type(changes[i]) # "import_only"
        /\ extract_production_classes_from_file(changes[i].file) # {}}

build_search_queries(changes) ==
    LET classes == UNION {extract_production_classes_from_file(changes[i].file) :
                              i \in Searched(changes)}
    IN  [exact_matches        |-> classes,
         module_matches       |-> {Split(c, ".")[1] \o <<".", "*">> :
                                       c \in {d \in classes : IsSubstr(<<".">>, d)}},
         file_patterns        |-> {Last(Split(SubSeq(changes[i].file, 1, Len(changes[i].file) - 1), "/")) :
                                       i \in Searched(changes)},
         test_file_candidates |-> UNION {extract_test_file_candidates(changes[i].file) :
                                             i \in Searched(changes)},
         changed_functions    |-> <<>>]

(***************************************************************************)
(* The fact store a query reads: five indexed tests.  (class_name and      *)
(* method_name, which every query copies unchanged from the registry row,  *)
(* are left out of the rows and of the test dictionaries.)                 *)
(***************************************************************************)
TestPath(dir, name) == <<"test", "s", "/", dir, "/", "test", "_", name, ".py">>

StoreRegistry ==
    {[test_id |-> 1, file_path |-> TestPath("unit", "core"),        test_type |-> "unit"],
     [test_id |-> 2, file_path |-> TestPath("integration", "flow"), test_type |-> "integration"],
     [test_id |-> 3, file_path |-> TestPath("unit", "misc"),        test_type |-> "unit"],
     [test_id |-> 4, file_path |-> TestPath("e2e", "site"),         test_type |-> "e2e"],
     [test_id |-> 5, file_path |-> TestPath("unit", "text"),        test_type |-> "unit"]}

StoreReverseIndex ==
    {[production_class |-> <<"agent", ".", "core">>, test_id |-> 1, reference_type |-> "direct_import"],
     [production_class |-> <<"agent", ".", "core", ".", "run">>, test_id |-> 3, reference_type |-> "string_ref"],
     [production_class |-> <<"agent", ".", "core">>, test_id |-> 2, reference_type |-> "direct_import"],
     [production_class |-> <<"agent">>, test_id |-> 3, reference_type |-> "direct_import"],
     [production_class |-> <<"api", ".", "core">>, test_id |-> 2, reference_type |-> "string_ref"],
     [production_class |-> <<"api", ".", "core">>, test_id |-> 4, reference_type |-> "direct_import"]}

StoreFunctionMapping ==
    {[test_id |-> 1, module_name |-> <<"agent", ".", "core">>, function_name |-> "run",
      call_type |-> "patch", source |-> "patch_ref"],
     [test_id |-> 2, module_name |-> <<"agent", ".", "core">>, function_name |-> "run",
      call_type |-> "direct", source |-> "call"],
     [test_id |-> 3, module_name |-> <<"api", ".", "core">>, function_name |-> "get",
      call_type |-> "direct", source |-> "call"]}

RegRow(id) == CHOOSE r \in StoreRegistry : r.test_id = id

\* SQL LIKE over tokens: % is any run of tokens, _ any one-character token
OneChar == {"_", "/", ".", "s"}

RECURSIVE Like(_, _)
Like(s, pat) ==
    IF pat = <<>> THEN s = <<>>
    ELSE IF Head(pat) = "%"
         THEN \E k \in 0..Len(s) : Like(SubSeq(s, k + 1, Len(s)), Tail(pat))
    ELSE /\ s # <<>>
         /\ Head(pat) = Head(s) \/ (Head(pat) = "_" /\ Head(s) \in OneChar)
         /\ Like(Tail(s), Tail(pat))

\* ORDER BY: a set of <<key, row>> pairs as the sequence of its rows, by
\* ascending key
RECURSIVE OrderBy(_)
OrderBy(S) ==
    IF S = {} THEN <<>>
    ELSE LET m == CHOOSE x \in S : \A y \in S : x[1] <= y[1]
         IN  <<m[2]>> \o OrderBy(S \ {m})

\* the rows of a list whose test_id no earlier row has (seen_test_ids)
RECURSIVE Unseen(_, _)
Unseen(rows, seen) ==
    IF rows = <<>> THEN <<>>
    ELSE IF Head(rows).test_id \in seen THEN Unseen(Tail(rows), seen)
    ELSE <<Head(rows)>> \o Unseen(Tail(rows), seen \cup {Head(rows).test_id})

\* query_tests_for_functions: one SELECT per changed function, patch
\* references first, a test listed once
query_tests_for_functions(changed_functions) ==
    LET Rows(cf) ==
            {<<(IF m.source = "patch_ref" THEN 1 ELSE 2) * 100 + m.test_id,
               [test_id |-> m.test_id, test_file_path |-> RegRow(m.test_id).file_path,
                test_type |-> RegRow(m.test_id).test_type, call_type |-> m.call_type,
                source |-> m.source, matched_module |-> cf.module,
                matched_function |-> cf.function]>> :
             m \in {x \in StoreFunctionMapping :
                        x.module_name = cf.module /\ x.function_name = cf.function}}
    IN  Unseen(Flatten([i \in 1..Len(changed_functions) |-> OrderBy(Rows(changed_functions[i]))]),
               {})

\* get_tests_for_production_class: per test the best-ranked reverse_index
\* row among those of the class and of its sub-paths (no test of the store
\* has two equally ranked rows of different reference types)
get_tests_in(rows_of_reverse_index, production_class) ==
    LET rows == {r \in rows_of_reverse_index :
                    \/ r.production_class = production_class
                    \/ Like(r.production_class, production_class \o <<".", "%">>)}
        Rank(r) == (IF r.production_class = production_class THEN 1 ELSE 2) * 10
                   + (IF r.reference_type = "string_ref" THEN 1 ELSE 2)
        Best(id) == CHOOSE r \in rows :
                        r.test_id = id /\ \A q \in rows : q.test_id = id => Rank(r) <= Rank(q)
    IN  OrderBy({<<(IF Best(id).reference_type = "string_ref" THEN 1 ELSE 2) * 100 + id,
                   [test_id |-> id, test_file_path |-> RegRow(id).file_path,
                    reference_type |-> Best(id).reference_type]>> :
                 id \in {r.test_id : r \in rows}})

get_tests_for_production_class(production_class) ==
    get_tests_in(StoreReverseIndex, production_class)

\* query_tests_for_classes: the classes that have tests, in the order asked
query_tests_for_classes(production_classes) ==
    SelectSeq([i \in 1..Len(production_classes) |->
                  [class |-> production_classes[i],
                   tests |-> get_tests_for_production_class(production_classes[i])]],
              LAMBDA e : e.tests # <<>>)

\* query_tests_module_pattern (prefer_direct): its rows have no test_type
query_tests_module_pattern(module_pattern, specific_classes) ==
    LET module_prefix == Replace(module_pattern, <<".", "*">>, <<>>)
        direct(r) == r.reference_type \in {"direct_import", "string_ref"}
        rows == IF specific_classes # {}
                THEN {r \in StoreReverseIndex :
                         \/ r.production_class \in specific_classes
                         \/ r.production_class = module_prefix /\ direct(r)}
                ELSE {r \in StoreReverseIndex :
                         \/ r.production_class = module_prefix
                         \/ Like(r.production_class, module_prefix \o <<".", "%">>) /\ direct(r)}
        distinct == {[test_id |-> r.test_id, reference_type |-> r.reference_type,
                      exact_match_priority |-> IF r.production_class = module_prefix THEN 1 ELSE 2,
                      ref_type_priority |-> IF direct(r) THEN 1 ELSE 2] : r \in rows}
    IN  OrderBy({<<d.exact_match_priority * 1000 + d.ref_type_priority * 100 + d.test_id,
                   [test_id |-> d.test_id, test_file_path |-> RegRow(d.test_id).file_path,
                    reference_type |-> d.reference_type]>> : d \in distinct})

\* find_integration_tests_for_module: ORDER BY test_type, test_id
find_integration_tests_for_module(production_class) ==
    OrderBy({<<(IF RegRow(r.test_id).test_type = "e2e" THEN 1 ELSE 2) * 100 + r.test_id,
               [test_id |-> r.test_id, test_file_path |-> RegRow(r.test_id).file_path,
                test_type |-> RegRow(r.test_id).test_type, reference_type |-> r.reference_type,
                match_type |-> "integration_test"]>> :
             r \in {x \in StoreReverseIndex :
                        /\ x.production_class = production_class
                        /\ RegRow(x.test_id).test_type \in {"integration", "e2e"}}})

\* find_direct_test_files_enhanced: the SELECTs it sends, in order, each
\* with the LIKE patterns of its WHERE clause.  module_name and file_path
\* are <<>> when not given.
DirectSelects(test_file_candidates, module_name, file_path) ==
    LET exact(test_file)  == Replace(test_file, <<"*", ".py">>, <<".py">>)
        base(test_file)   == Replace(Replace(Replace(test_file, <<"test", "_">>, <<>>),
                                             <<"_", "*", ".py">>, <<>>), <<"*", ".py">>, <<>>)
        s1(test_file) ==
            << [patterns |-> {<<"%">> \o exact(test_file)}, match_strategy |-> "exact_filename"],
               [patterns |-> {<<"%">> \o exact(test_file)}, match_strategy |-> "exact_filename"],
               [patterns |-> {<<"%", "/">> \o exact(test_file)}, match_strategy |-> "exact_filename"] >>
        s2(test_file) ==
            IF IsSubstr(<<"*", ".py">>, test_file)
            THEN << [patterns |-> {<<"%", "test", "_">> \o base(test_file) \o <<"_", "%">>},
                     match_strategy |-> "pattern_match"],
                    [patterns |-> {<<"%", "test", "_", "%">> \o base(test_file) \o <<"%">>},
                     match_strategy |-> "pattern_match"] >>
            ELSE <<>>
        stem(path) == Last(Split(SubSeq(path, 1, Len(path) - 1), "/"))
        s3 == IF module_name # <<>>
              THEN << [patterns |-> {<<"%", "test", "_">> \o Last(Split(module_name, ".")) \o <<"%">>,
                                     <<"%">> \o Last(Split(module_name, ".")) \o <<"%">>},
                       match_strategy |-> "module_basename"] >>
              ELSE <<>>
        s4 == IF file_path # <<>>
              THEN << [patterns |-> {<<"%">> \o stem(file_path) \o <<"%">>,
                                     <<"%", "test", "_">> \o stem(file_path) \o <<"%">>},
                       match_strategy |-> "file_path_based"] >>
              ELSE <<>>
    IN  Flatten([i \in 1..Len(test_file_candidates) |-> s1(test_file_candidates[i])])
        \o Flatten([i \in 1..Len(test_file_candidates) |-> s2(test_file_candidates[i])])
        \o s3 \o s4

find_direct_test_files_enhanced(test_file_candidates, module_name, file_path) ==
    LET selects == DirectSelects(test_file_candidates, module_name, file_path)
        Rows(q) == {<<r.test_id,
                      [test_id |-> r.test_id, test_file_path |-> r.file_path,
                       test_type |-> r.test_type, match_type |-> "direct_test_file",
                       match_strategy |-> q.match_strategy]>> :
                    r \in {x \in StoreRegistry : \E pat \in q.patterns : Like(x.file_path, pat)}}
    IN  IF test_file_candidates = <<>> THEN <<>>
        ELSE Unseen(Flatten([i \in 1..Len(selects) |-> OrderBy(Rows(selects[i]))]), {})

(***************************************************************************)
(* Scoring and the vector backend                                          *)
(***************************************************************************)
\* d.get(key, default)
Get(d, key, default) == IF key \in DOMAIN d THEN d[key] ELSE default

\* a weighting that would count a semantic reason by its similarity, in
\* percent
MatchWeight_SemanticBySimilarity(match) ==
    LET mtype    == Get(match, "type", "")
        ref_type == Get(match, "reference_type", "")
    IN  IF mtype = "function_level" THEN 50
        ELSE IF mtype = "exact" /\ ref_type = "direct_import" THEN 45
        ELSE IF mtype = "exact" /\ ref_type = "string_ref" THEN 40
        ELSE IF mtype = "direct_file" THEN 35
        ELSE IF mtype = "integration" THEN 25
        ELSE IF mtype = "module" THEN 15
        ELSE IF mtype = "semantic" THEN match.similarity \div 10
        ELSE 0

\* a weighting that would take points off for a reason it does not know
MatchWeight_Penalising(match) ==
    LET mtype    == Get(match, "type", "")
        ref_type == Get(match, "reference_type", "")
    IN  IF mtype = "function_level" THEN 50
        ELSE IF mtype = "exact" /\ ref_type = "direct_import" THEN 45
        ELSE IF mtype = "exact" /\ ref_type = "string_ref" THEN 40
        ELSE IF mtype = "direct_file" THEN 35
        ELSE IF mtype = "integration" THEN 25
        ELSE IF mtype = "module" THEN 15
        ELSE 0 - 10

\* calculate_confidence_score: the weight one match reason adds
MatchWeight(match) ==
    LET mtype    == Get(match, "type", "")
        ref_type == Get(match, "reference_type", "")
    IN  IF mtype = "function_level" THEN 50
        ELSE IF mtype = "exact" /\ ref_type = "direct_import" THEN 45
        ELSE IF mtype = "exact" /\ ref_type = "string_ref" THEN 40
        ELSE IF mtype = "direct_file" THEN 35
        ELSE IF mtype = "integration" THEN 25
        ELSE IF mtype = "module" THEN 15
        ELSE 0

\* (test_type or '').lower(), over the test types of the universe
LowerType(test_type) == IF test_type = "Unit" THEN "unit" ELSE test_type

TestTypeBonus(test_type) ==
    IF LowerType(test_type) = "unit" THEN 15
    ELSE IF LowerType(test_type) = "integration" THEN 5
    ELSE 0

RECURSIVE SumWeights(_)
SumWeights(matches) ==
    IF matches = <<>> THEN 0 ELSE MatchWeight(Head(matches)) + SumWeights(Tail(matches))

Min(a, b) == IF a <= b THEN a ELSE b

\* a score without the function-level precision bonus
calculate_confidence_score_NoBonus(matches, test_type) ==
    Min(SumWeights(matches) + TestTypeBonus(test_type), 100)

calculate_confidence_score(matches, test_type) ==
    LET has_function_level ==
            \E i \in 1..Len(matches) : Get(matches[i], "type", "") = "function_level"
    IN  Min(SumWeights(matches) + (IF has_function_level THEN 20 ELSE 0)
            + TestTypeBonus(test_type), 100)

\* semantic_retrieval/config.py; a similarity is kept in thousandths, as
\* round(similarity, 3) gives it
DEFAULT_SIMILARITY_THRESHOLD == 300
DEFAULT_MAX_RESULTS == 20
SEMANTIC_SCORE_CAP == 60

\* search_similar: the nearest tests the collection returns, nearest first,
\* filtered by the threshold and cut at max_results; each result carries the
\* backend's own confidence_score
search_similar(hits, similarity_threshold, max_results) ==
    LET above == SelectSeq(hits, LAMBDA h : h.similarity >= similarity_threshold)
        kept  == SubSeq(above, 1, Min(Len(above), max_results))
    IN  [i \in 1..Len(kept) |->
            [test_id |-> kept[i].test_id, test_file_path |-> RegRow(kept[i].test_id).file_path,
             test_type |-> kept[i].test_type, match_type |-> "semantic",
             similarity |-> kept[i].similarity,
             confidence_score |-> (kept[i].similarity * SEMANTIC_SCORE_CAP) \div 1000]]

(***************************************************************************)
(* The selectors find_affected_tests and find_tests_ast_only, one action   *)
(* per strategy.  selection.all_tests is the dictionary all_tests, as the  *)
(* sequence of its values in insertion order.                              *)
(***************************************************************************)
Ids(sel) == {sel.all_tests[i].test_id : i \in 1..Len(sel.all_tests)}

\* a loop that would start a test's reason list afresh at every match
AddMatch_Overwrites(sel, test, reason) ==
    IF test.test_id \in Ids(sel)
    THEN [sel EXCEPT !.match_details[test.test_id] = <<reason>>]
    ELSE [all_tests     |-> Append(sel.all_tests, test),
          match_details |-> (test.test_id :> <<reason>>) @@ sel.match_details]

\* the loop every strategy ends with: a test not yet in all_tests is
\* entered with an empty reason list, then the reason is appended
AddMatch(sel, test, reason) ==
    IF test.test_id \in Ids(sel)
    THEN [sel EXCEPT !.match_details[test.test_id] = Append(@, reason)]
    ELSE [all_tests     |-> Append(sel.all_tests, test),
          match_details |-> (test.test_id :> <<reason>>) @@ sel.match_details]

\* found: a sequence of [test, reason] pairs
RECURSIVE AddMatches(_, _)
AddMatches(sel, found) ==
    IF found = <<>> THEN sel
    ELSE AddMatches(AddMatch(sel, Head(found).test, Head(found).reason), Tail(found))

Found(tests, reason(_)) == [i \in 1..Len(tests) |-> [test |-> tests[i], reason |-> reason(tests[i])]]

Sent(n) == [issued EXCEPT !.store = @ + n]

\* the diffs a query may be about
Change(file, status, additions, changed_lines, changed_methods) ==
    [file |-> file, status |-> status, additions |-> additions,
     changed_lines |-> changed_lines, changed_classes |-> <<>>,
     changed_methods |-> changed_methods]

CoreCode    == Change(FileCore, "modified", 2, <<60, 61>>, <<"run">>)
CoreImport  == Change(FileCore, "modified", 1, <<3>>, <<>>)
CoreComment == Change(FileCore, "modified", 0, <<70>>, <<>>)
ApiCode     == Change(FileApiCore, "modified", 2, <<80, 81>>, <<"get">>)

ProductionChanges ==
    {CoreCode, CoreImport, CoreComment, ApiCode,
     Change(FileCore, "added", 3, <<1, 2, 3>>, <<"run">>),
     Change(FileCore, "deleted", 0, <<1, 2>>, <<>>),
     Change(FileApiCore, "modified", 1, <<4>>, <<>>),
     Change(FileApiCore, "added", 2, <<1, 2>>, <<"get">>)}

OtherChanges ==
    {Change(FileChat, "modified", 1, <<120>>, <<>>),
     Change(FileStyle, "modified", 1, <<10>>, <<>>),
     Change(FileFrontPy, "modified", 2, <<90, 91>>, <<"main">>)}

Diffs ==
    {<<c>> : c \in ProductionChanges \cup OtherChanges}
    \cup {<<c, d>> : c \in {CoreCode, CoreImport}, d \in OtherChanges}
    \cup {<<c, ApiCode>> : c \in {CoreCode, CoreImport, CoreComment}}
    \cup {<<c, d>> : c \in {x \in OtherChanges : x.file = FileChat},
                     d \in {x \in OtherChanges : x.file \in {FileStyle, FileFrontPy}}}

\* list(set(candidates)) of extract_production_classes_from_file: either
\* class may come first, the same one each time the file is looked at
FirstClasses(changes) ==
    {f \in [1..Len(changes) ->
                {<<>>} \cup UNION {extract_production_classes_from_file(changes[i].file) :
                                   i \in 1..Len(changes)}] :
        \A i \in 1..Len(changes) :
            LET classes == extract_production_classes_from_file(changes[i].file)
            IN  IF classes = {} THEN f[i] = <<>> ELSE f[i] \in classes}

\* the changed_functions a caller may put in the request
ChangedFunctionLists ==
    {<< [module |-> <<"agent", ".", "core">>, function |-> "run"] >>,
     << [module |-> <<"agent", ".", "core">>, function |-> "run"],
        [module |-> <<"api", ".", "core">>, function |-> "get"] >>,
     << [module |-> <<"agent", ".", "core">>, function |-> "stop"] >>}

\* the vector backend: reachable with the nearest tests it holds for the
\* query embedding, not configured (get_backend raises), or failing the
\* search
Hit(id, similarity) == [test_id |-> id, similarity |-> similarity,
                        test_type |-> RegRow(id).test_type]

Backends ==
    {[state |-> "ok", hits |-> h] :
        h \in {<<>>, <<Hit(1, 900), Hit(5, 450)>>,
               <<Hit(4, 1000), Hit(2, 700), Hit(5, 310), Hit(3, 250)>>}}
    \cup {[state |-> st, hits |-> <<>>] : st \in {"no_backend", "search_fails"}}

Selectors == {"find_affected_tests", "find_tests_ast_only"}

InitQuery ==
    /\ disk = {p \in AllDiskFiles : p[1] = TEST_REPO_ROOT}
    /\ registry_json = <<>>
    /\ deps_json = <<>>
    /\ function_calls_json = <<>>
    /\ rev_json = <<>>
    /\ metadata_json = <<>>
    /\ test_registry = {}
    /\ test_dependencies = EmptyBag
    /\ reverse_index = EmptyBag
    /\ test_metadata = {}
    /\ test_function_mapping = EmptyBag
    /\ assigned = {}
    /\ loaded = NothingLoaded
    /\ crash_expected = [deps |-> NoCrash, rev |-> NoCrash]
    /\ before_drop = [dropped |-> FALSE, built |-> FALSE, content |-> EmptyBag]
    /\ pending = [run \in Runs |-> Idle]
    /\ last_op = Op("init", "", "", {})
    /\ mode \in [selector : Selectors, caller : {"none"}]
    /\ file_changes \in Diffs
    /\ classes_first \in FirstClasses(file_changes)
    /\ search_queries = NoRequest
    /\ vector_backend \in IF mode.selector = "find_affected_tests" THEN Backends
                         ELSE {NoBackend}
    /\ pc = "build"
    /\ selection = NoSelection
    /\ issued = NoneIssued
    /\ result = <<>>
    /\ before_semantic = NoSelection
    /\ scoring = NoScoring
    /\ commands = NoCommands
    /\ lookup = NoLookup
    /\ SideIdle

store_vars == <<disk, artifacts, test_registry, children, assigned, load_hist, pending, last_op>>

\* what no selector touches
index_vars == <<store_vars, scoring, commands, lookup, side_vars>>

\* main, step 3: the request is build_search_queries of the parsed diff
BuildSearchQueries ==
    /\ pc = "build"
    /\ search_queries' = build_search_queries(file_changes)
    /\ mode' = [mode EXCEPT !.caller = "main"]
    /\ pc' = "0"
    /\ UNCHANGED <<index_vars, file_changes, classes_first, vector_backend, selection, issued,
                   result, before_semantic>>

\* a caller that also puts changed_functions in the request, the key that
\* strategies 0 and 4 read
RequestWithFunctions(changed_functions) ==
    /\ pc = "build"
    /\ search_queries' = [build_search_queries(file_changes)
                             EXCEPT !.changed_functions = changed_functions]
    /\ mode' = [mode EXCEPT !.caller = "api"]
    /\ pc' = "0"
    /\ UNCHANGED <<index_vars, file_changes, classes_first, vector_backend, selection, issued,
                   result, before_semantic>>

Combined == mode.selector = "find_affected_tests"

select_frame == <<index_vars, mode, file_changes, classes_first, search_queries,
                  vector_backend, result>>

\* Strategy 0: function-level matching
Strategy0 ==
    /\ pc = "0"
    /\ LET changed_functions == search_queries.changed_functions
           function_tests    == query_tests_for_functions(changed_functions)
           reason(test) ==
               IF Combined
               THEN [type |-> "function_level", module |-> test.matched_module,
                     function |-> test.matched_function, call_type |-> test.call_type,
                     source |-> test.source, confidence |-> "very_high"]
               ELSE [type |-> "function_level", module |-> test.matched_module,
                     function |-> test.matched_function, source |-> test.source,
                     confidence |-> "very_high"]
       IN  IF changed_functions # <<>>
           THEN /\ selection' = AddMatches(selection, Found(function_tests, reason))
                /\ issued' = Sent(Len(changed_functions))
           ELSE UNCHANGED <<selection, issued>>
    /\ pc' = "1"
    /\ UNCHANGED <<select_frame, before_semantic>>

\* Strategy 1: direct test files.  find_affected_tests looks each candidate
\* up on its own, with the module and file it can pair it with;
\* find_tests_ast_only looks all candidates up at once.
module_file_map ==
    LET py == SelectSeq([i \in 1..Len(file_changes) |-> i],
                        LAMBDA i : /\ IsSuffix(<<".py">>, file_changes[i].file)
                                   /\ extract_production_classes_from_file(file_changes[i].file) # {})
    IN  [k \in 1..Len(py) |-> [mod |-> classes_first[py[k]], fp |-> file_changes[py[k]].file]]

Paired(candidate) ==
    LET stripped == Replace(Replace(candidate, <<"test", "_">>, <<>>), <<".py">>, <<>>)
        fits     == SelectSeq(module_file_map,
                              LAMBDA e : IsSubstr(stripped, e.mod) \/ IsSubstr(stripped, e.fp))
    IN  IF fits = <<>> THEN [mod |-> <<>>, fp |-> <<>>] ELSE fits[1]

Strategy1(candidates) ==
    /\ pc = "1"
    /\ candidates \in Perms(search_queries.test_file_candidates)
    /\ LET each == [i \in 1..Len(candidates) |->
                       find_direct_test_files_enhanced(<<candidates[i]>>,
                           Paired(candidates[i]).mod, Paired(candidates[i]).fp)]
           direct_tests == IF Combined THEN Unseen(Flatten(each), {})
                           ELSE find_direct_test_files_enhanced(candidates, <<>>, <<>>)
           selects == IF Combined
                      THEN Flatten([i \in 1..Len(candidates) |->
                                       DirectSelects(<<candidates[i]>>, Paired(candidates[i]).mod,
                                                     Paired(candidates[i]).fp)])
                      ELSE DirectSelects(candidates, <<>>, <<>>)
           reason(test) == [type |-> "direct_file", test_file |-> test.test_file_path,
                            match_strategy |-> test.match_strategy, confidence |-> "very_high"]
       IN  IF candidates # <<>>
           THEN /\ selection' = AddMatches(selection, Found(direct_tests, reason))
                /\ issued' = Sent(Len(selects))
           ELSE UNCHANGED <<selection, issued>>
    /\ pc' = "1.5"
    /\ UNCHANGED <<select_frame, before_semantic>>

\* Strategy 1.5: integration and e2e tests of the first class of every
\* changed Python file whose change is not import-only
Strategy15 ==
    /\ pc = "1.5"
    /\ LET looked == SelectSeq([i \in 1..Len(file_changes) |-> i],
                        LAMBDA i : /\ analyze_file_change_type(file_changes[i]) # "import_only"
                                   /\ IsSuffix(<<".py">>, file_changes[i].file)
                                   /\ extract_production_classes_from_file(file_changes[i].file) # {})
           found(i) ==
               LET module_name == classes_first[i]
                   reason(test) == [type |-> "integration", module |-> module_name,
                                    confidence |-> "high"]
               IN  Found(find_integration_tests_for_module(module_name), reason)
       IN  /\ selection' = AddMatches(selection, Flatten([k \in 1..Len(looked) |-> found(looked[k])]))
           /\ issued' = Sent(Len(looked))
    /\ pc' = "2"
    /\ UNCHANGED <<select_frame, before_semantic>>

\* Strategy 2: exact matches; with no result at all find_affected_tests
\* looks into reverse_index once or twice more, for its diagnostics
Strategy2(exact_matches) ==
    /\ pc = "2"
    /\ exact_matches \in Perms(search_queries.exact_matches)
    /\ LET exact_results == query_tests_for_classes(exact_matches)
           found(e) ==
               LET reason(test) == [type |-> "exact", class |-> e.class,
                                    reference_type |-> Get(test, "reference_type", "direct_import"),
                                    confidence |-> "high"]
               IN  Found(e.tests, reason)
           sample_classes == {r \in StoreReverseIndex :
                                 \/ Like(r.production_class, exact_matches[1] \o <<"%">>)
                                 \/ r.production_class = exact_matches[1]}
           diagnostics == IF Combined /\ exact_results = <<>>
                          THEN (IF sample_classes = {} THEN 2 ELSE 1) ELSE 0
       IN  IF exact_matches # <<>>
           THEN /\ selection' = AddMatches(selection,
                                    Flatten([k \in 1..Len(exact_results) |-> found(exact_results[k])]))
                /\ issued' = Sent(Len(exact_matches) + diagnostics)
           ELSE UNCHANGED <<selection, issued>>
    /\ pc' = "3"
    /\ UNCHANGED <<select_frame, before_semantic>>

\* Strategy 3: module patterns.  find_affected_tests narrows a pattern to
\* the classes of the files whose change is code, and skips a pattern whose
\* module has no such file when some other module has one.
code_changed_classes ==
    UNION {{c \in extract_production_classes_from_file(file_changes[i].file) : IsSubstr(<<".">>, c)} :
           i \in {j \in 1..Len(file_changes) : analyze_file_change_type(file_changes[j]) = "code"}}

code_changed_modules == {Split(c, ".")[1] : c \in code_changed_classes}

Strategy3(module_matches) ==
    /\ pc = "3"
    /\ module_matches \in Perms(search_queries.module_matches)
    /\ LET module_prefix(module_pattern) == Replace(module_pattern, <<".", "*">>, <<>>)
           asked == IF Combined
                    THEN SelectSeq(module_matches,
                            LAMBDA module_pattern :
                                ~(code_changed_modules # {}
                                  /\ module_prefix(module_pattern) \notin code_changed_modules))
                    ELSE module_matches
           specific_classes(module_pattern) ==
               IF Combined
               THEN {c \in code_changed_classes : Split(c, ".")[1] = module_prefix(module_pattern)}
               ELSE {}
           found(module_pattern) ==
               LET reason(test) == [type |-> "module", pattern |-> module_pattern,
                                    reference_type |-> Get(test, "reference_type", "direct_import"),
                                    confidence |-> "medium"]
               IN  Found(query_tests_module_pattern(module_pattern, specific_classes(module_pattern)),
                         reason)
       IN  IF module_matches # <<>>
           THEN /\ selection' = AddMatches(selection,
                                    Flatten([k \in 1..Len(asked) |-> found(asked[k])]))
                /\ issued' = Sent(Len(asked))
           ELSE UNCHANGED <<selection, issued>>
    /\ pc' = IF Combined THEN "4" ELSE "score"
    /\ UNCHANGED <<select_frame, before_semantic>>

\* Strategy 4 (find_affected_tests only): semantic search, inside
\* try/except Exception
SemanticReason(test) ==
    [type |-> "semantic", similarity |-> test.similarity, confidence |-> "medium"]

\* a semantic loop that would not look whether the test is already selected
AddSemantic_Unguarded(sel, test) ==
    IF test.test_id \in Ids(sel)
    THEN [sel EXCEPT !.match_details[test.test_id] = Append(@, SemanticReason(test))]
    ELSE [all_tests     |-> Append(sel.all_tests, test),
          match_details |-> (test.test_id :> <<SemanticReason(test)>>) @@ sel.match_details]

AddSemantic(sel, test) ==
    IF test.test_id \in Ids(sel) THEN sel
    ELSE [all_tests     |-> Append(sel.all_tests, test),
          match_details |-> (test.test_id :> <<SemanticReason(test)>>) @@ sel.match_details]

RECURSIVE AddSemanticMatches(_, _)
AddSemanticMatches(sel, semantic_matches) ==
    IF semantic_matches = <<>> THEN sel
    ELSE AddSemanticMatches(AddSemantic(sel, Head(semantic_matches)), Tail(semantic_matches))

\* a strategy 4 without the try/except: an exception of the semantic
\* search ends the query, nothing is returned
Strategy4_Uncaught ==
    /\ pc = "4"
    /\ before_semantic' = selection
    /\ IF search_queries.changed_functions # <<>> /\ vector_backend.state # "ok"
       THEN /\ pc' = "done"
            /\ issued' = [issued EXCEPT !.vector = @ + (IF vector_backend.state = "search_fails"
                                                         THEN 1 ELSE 0)]
            /\ UNCHANGED selection
       ELSE /\ pc' = "score"
            /\ IF search_queries.changed_functions = <<>>
               THEN UNCHANGED <<selection, issued>>
               ELSE /\ issued' = [issued EXCEPT !.vector = @ + 1]
                    /\ selection' = AddSemanticMatches(selection,
                                        search_similar(vector_backend.hits,
                                                       DEFAULT_SIMILARITY_THRESHOLD,
                                                       DEFAULT_MAX_RESULTS))
    /\ UNCHANGED select_frame

Strategy4 ==
    /\ pc = "4"
    /\ before_semantic' = selection
    /\ IF search_queries.changed_functions = <<>>
       THEN UNCHANGED <<selection, issued>>
       ELSE IF vector_backend.state = "no_backend"
       THEN /\ issued' = [issued EXCEPT !.warnings = @ + 1]
            /\ UNCHANGED selection
       ELSE IF vector_backend.state = "search_fails"
       THEN /\ issued' = [issued EXCEPT !.vector = @ + 1, !.warnings = @ + 1]
            /\ UNCHANGED selection
       ELSE /\ issued' = [issued EXCEPT !.vector = @ + 1]
            /\ selection' = AddSemanticMatches(selection,
                                search_similar(vector_backend.hits, DEFAULT_SIMILARITY_THRESHOLD,
                                               DEFAULT_MAX_RESULTS))
    /\ pc' = "score"
    /\ UNCHANGED select_frame

\* the end of both selectors: every test gets its confidence_score, the
\* tests are sorted by it, highest first, equal scores in insertion order
Scored(sel) ==
    [i \in 1..Len(sel.all_tests) |->
        LET test  == sel.all_tests[i]
            score == calculate_confidence_score(sel.match_details[test.test_id],
                                                Get(test, "test_type", None))
        IN  [k \in DOMAIN test \cup {"confidence_score"} |->
                IF k = "confidence_score" THEN score ELSE test[k]]]

\* a sort that would put the lowest score first
sorted_tests_Ascending(tests) ==
    OrderBy({<<tests[i].confidence_score * (Len(tests) + 1) + i, tests[i]>> :
             i \in 1..Len(tests)})

sorted_tests(tests) ==
    OrderBy({<<(100 - tests[i].confidence_score) * (Len(tests) + 1) + i, tests[i]>> :
             i \in 1..Len(tests)})

Emit ==
    /\ pc = "score"
    /\ selection' = [selection EXCEPT !.all_tests = Scored(selection)]
    /\ result' = [tests         |-> sorted_tests(Scored(selection)),
                  match_details |-> selection.match_details,
                  total_tests   |-> Len(selection.all_tests)]
    /\ pc' = "done"
    /\ UNCHANGED <<index_vars, mode, file_changes, classes_first, search_queries,
                   vector_backend, issued, before_semantic>>

\* the class and method of a test, which every selector copies from
\* test_registry into its rows (a free function has no class)
StoreNames ==
    (1 :> [class_name |-> "TestCore", method_name |-> "test_run"]) @@
    (2 :> [class_name |-> None,       method_name |-> "test_flow"]) @@
    (3 :> [class_name |-> "TestMisc", method_name |-> "test_helper"]) @@
    (4 :> [class_name |-> "TestSite", method_name |-> "test_open"]) @@
    (5 :> [class_name |-> "",         method_name |-> "test_text"])

\* generate_pytest_commands.to_node_id
to_node_id(t) ==
    LET file_path  == Get(t, "test_file_path", <<>>)
        class_name == StoreNames[t.test_id].class_name
        method     == StoreNames[t.test_id].method_name
    IN  IF class_name \notin {"", None}
        THEN file_path \o <<"::", class_name, "::", method>>
        ELSE file_path \o <<"::", method>>

\* generate_pytest_commands.build_cmd: the command is "pytest", the node
\* ids and "-v", or a comment when no test passes the filter
build_cmd(tests) ==
    IF tests = <<>> THEN <<"# No tests matched this filter">>
    ELSE <<"pytest">> \o [i \in 1..Len(tests) |-> to_node_id(tests[i])] \o <<"-v">>

IsUnit(t) == LowerType(Get(t, "test_type", None)) = "unit"

\* a fast subset that would be filtered from all the tests, not from the
\* high-priority ones
generate_pytest_commands_FastFromAll(scored_tests, total_in_repo) ==
    LET high_tests == SelectSeq(scored_tests, LAMBDA t : Get(t, "confidence_score", 0) >= 60)
        fast_tests == SelectSeq(scored_tests, IsUnit)
    IN  [run_all  |-> build_cmd(scored_tests),
         run_high |-> build_cmd(high_tests),
         run_fast |-> build_cmd(fast_tests),
         stats    |-> [total_in_repo |-> total_in_repo, selected |-> Len(scored_tests),
                       high_priority |-> Len(high_tests), fast_subset |-> Len(fast_tests)]]

\* generate_pytest_commands (reduction_pct, a rounded float, is left out
\* of stats)
generate_pytest_commands(scored_tests, total_in_repo) ==
    LET high_tests == SelectSeq(scored_tests, LAMBDA t : Get(t, "confidence_score", 0) >= 60)
        fast_tests == SelectSeq(high_tests, IsUnit)
    IN  [run_all  |-> build_cmd(scored_tests),
         run_high |-> build_cmd(high_tests),
         run_fast |-> build_cmd(fast_tests),
         stats    |-> [total_in_repo |-> total_in_repo, selected |-> Len(scored_tests),
                       high_priority |-> Len(high_tests), fast_subset |-> Len(fast_tests)]]

\* display_results and save_results_to_file: the commands are made when
\* the result holds a test
DisplayResults ==
    /\ pc = "done"
    /\ commands' = IF result.tests # <<>>
                   THEN generate_pytest_commands(result.tests, Cardinality(StoreRegistry))
                   ELSE commands
    /\ pc' = "shown"
    /\ UNCHANGED <<store_vars, side_vars, scoring, lookup, mode, file_changes, classes_first, search_queries,
                   vector_backend, selection, issued, result, before_semantic>>

NextQuery ==
    \/ BuildSearchQueries
    \/ \E changed_functions \in ChangedFunctionLists : RequestWithFunctions(changed_functions)
    \/ Strategy0
    \/ \E candidates \in Perms(search_queries.test_file_candidates) : Strategy1(candidates)
    \/ Strategy15
    \/ \E exact_matches \in Perms(search_queries.exact_matches) : Strategy2(exact_matches)
    \/ \E module_matches \in Perms(search_queries.module_matches) : Strategy3(module_matches)
    \/ Strategy4
    \/ Emit
    \/ DisplayResults

SpecQuery == InitQuery /\ [][NextQuery]_vars

(***************************************************************************)
(* Properties of a query (SpecQuery)                                       *)
(***************************************************************************)
\* the order of the steps of a selector, and of the display of its result
StrategyOrder ==
    {<<"build", "0">>, <<"0", "1">>, <<"1", "1.5">>, <<"1.5", "2">>, <<"2", "3">>,
     <<"3", "4">>, <<"4", "score">>, <<"score", "done">>, <<"done", "shown">>}

AstOrder == (StrategyOrder \ {<<"3", "4">>, <<"4", "score">>}) \cup {<<"3", "score">>}

Strategies == {"0", "1", "1.5", "2", "3", "4"}

\* what a selection holds is still there, no test lost and every reason
\* list only longer
OnlyAdds(before, after) ==
    /\ Ids(before) \subseteq Ids(after)
    /\ \A id \in Ids(before) : IsPrefix(before.match_details[id], after.match_details[id])
    /\ IsPrefix([i \in 1..Len(before.all_tests) |-> before.all_tests[i].test_id],
                [i \in 1..Len(after.all_tests) |-> after.all_tests[i].test_id])

\* C11: within one query the strategies run in the order 0, 1, 1.5, 2, 3, 4
\* (find_tests_ast_only: 0, 1, 1.5, 2, 3), and a strategy only adds: every
\* selected test stays selected and keeps, at the head of its reason list,
\* the reasons it had.
C11_StrategiesInOrderOnlyAdd ==
    [][/\ pc' # pc => <<pc, pc'>> \in (IF Combined THEN StrategyOrder ELSE AstOrder)
       /\ pc \in Strategies => OnlyAdds(selection, selection')]_vars

\* a query of find_affected_tests in which strategies 0, 1, 2 and 3 each
\* added a reason to one test and strategy 4 added a test
C11_Witness ==
    /\ pc = "score"
    /\ Combined
    /\ \E id \in Ids(selection) :
          {"function_level", "direct_file", "exact", "module"}
              \subseteq {selection.match_details[id][i].type :
                            i \in 1..Len(selection.match_details[id])}
    /\ \E id \in Ids(selection) : selection.match_details[id][1].type = "semantic"
    /\ \E id \in Ids(selection) : selection.match_details[id][1].type = "integration"

ReasonTypes(sel, id) == {sel.match_details[id][i].type : i \in 1..Len(sel.match_details[id])}

\* C12: strategy 4 leaves every test that strategies 0-3 selected as it
\* was: the same entry in all_tests, the same reason list, and no semantic
\* reason in it.
C12_SemanticOnlyAddsNewTests ==
    [][pc = "4" =>
          \A i \in 1..Len(selection.all_tests) :
              LET id == selection.all_tests[i].test_id
              IN  /\ selection'.all_tests[i] = selection.all_tests[i]
                  /\ selection'.match_details[id] = selection.match_details[id]
                  /\ "semantic" \notin ReasonTypes(selection', id)]_vars

\* strategy 4 has run, the backend returned a test that strategies 0-3 had
\* selected, and a test they had not
C12_Witness ==
    /\ pc = "score"
    /\ Combined
    /\ search_queries.changed_functions # <<>>
    /\ vector_backend.state = "ok"
    /\ \E i \in 1..Len(vector_backend.hits) :
          /\ vector_backend.hits[i].similarity >= DEFAULT_SIMILARITY_THRESHOLD
          /\ vector_backend.hits[i].test_id \in Ids(before_semantic)
    /\ Ids(selection) # Ids(before_semantic)

\* the vector backend cannot serve the semantic search of this query
BackendUnavailable ==
    /\ Combined
    /\ search_queries.changed_functions # <<>>
    /\ vector_backend.state \in {"no_backend", "search_fails"}

\* what the end of the selector makes of a selection
ResultOf(sel) ==
    [tests         |-> sorted_tests(Scored(sel)),
     match_details |-> sel.match_details,
     total_tests   |-> Len(sel.all_tests)]

ChangedInProduction ==
    UNION {{[module |-> CHOOSE c \in extract_production_classes_from_file(file_changes[i].file) :
                            \A d \in extract_production_classes_from_file(file_changes[i].file) :
                                Len(d) <= Len(c),
             function |-> file_changes[i].changed_methods[k]] :
            k \in 1..Len(file_changes[i].changed_methods)} :
           i \in {j \in 1..Len(file_changes) : is_production_python_file(file_changes[j].file)}}

\* every test the store maps to the function is in the result, with a
\* function_level reason
FunctionLevelReturned(cf) ==
    \A m \in StoreFunctionMapping :
        m.module_name = cf.module /\ m.function_name = cf.function =>
            /\ \E i \in 1..Len(result.tests) : result.tests[i].test_id = m.test_id
            /\ m.test_id \in DOMAIN result.match_details
            /\ \E k \in 1..Len(result.match_details[m.test_id]) :
                  result.match_details[m.test_id][k].type = "function_level"

\* C14: when a diff changes function f in a production file of module m,
\* the request built from the diff holds (m, f) in changed_functions, and
\* the result holds every test the store maps to (m, f), with a
\* function_level reason.
C14_ChangedFunctionsReachTheRequest ==
    mode.caller = "main" =>
        \A cf \in ChangedInProduction :
            /\ \E k \in 1..Len(search_queries.changed_functions) :
                  search_queries.changed_functions[k] = cf
            /\ pc = "done" => FunctionLevelReturned(cf)

\* the second half alone, for a request that does hold the changed
\* functions of the diff
C14_GivenTheRequest ==
    pc = "done" =>
        \A cf \in ChangedInProduction :
            (\E k \in 1..Len(search_queries.changed_functions) :
                search_queries.changed_functions[k] = cf) => FunctionLevelReturned(cf)

\* the production files of the diff, and the diffs whose production
\* changes are all import-only
ProductionFiles == {i \in 1..Len(file_changes) : is_production_python_file(file_changes[i].file)}

OnlyImportOnly ==
    /\ ProductionFiles # {}
    /\ \A i \in ProductionFiles : analyze_file_change_type(file_changes[i]) = "import_only"

ResultIds == {result.tests[i].test_id : i \in 1..Len(result.tests)}

\* the tests of the store whose file matches a test-file candidate of the
\* file, and those that reference one of its classes exactly
CandidateTests(file_path) ==
    LET candidates == CHOOSE c \in Perms(extract_test_file_candidates(file_path)) : TRUE
        tests      == find_direct_test_files_enhanced(candidates, <<>>, <<>>)
    IN  {tests[i].test_id : i \in 1..Len(tests)}

ExactTests(file_path) ==
    {r.test_id : r \in {x \in StoreReverseIndex :
                           x.production_class \in extract_production_classes_from_file(file_path)}}

\* the first half: no module, integration or function_level reason
C15_ModuleMatchesSuppressed ==
    pc = "done" /\ mode.caller = "main" /\ OnlyImportOnly =>
        \A id \in DOMAIN result.match_details :
            ReasonTypes(result, id) \cap {"module", "integration", "function_level"} = {}

\* C15: when the only production change of a diff is import-only, no test
\* of the result has a module, integration or function_level reason, and
\* the tests that match the file's test-file candidates or reference its
\* module exactly are in the result.
C15_ImportOnlyKeepsDirectAndExact ==
    pc = "done" /\ mode.caller = "main" /\ OnlyImportOnly =>
        /\ \A id \in DOMAIN result.match_details :
              ReasonTypes(result, id) \cap {"module", "integration", "function_level"} = {}
        /\ \A i \in ProductionFiles :
              CandidateTests(file_changes[i].file) \cup ExactTests(file_changes[i].file)
                  \subseteq ResultIds

\* a diff that touches only .tsx files, .css files and files under
\* frontend/
OnlyNonProduction ==
    \A i \in 1..Len(file_changes) :
        \/ IsSuffix(<<".tsx">>, file_changes[i].file)
        \/ IsSuffix(<<".css">>, file_changes[i].file)
        \/ IsPrefix(<<"frontend", "/">>, file_changes[i].file)

\* C16: for a diff that touches only non-production files, the match
\* engine selects no test and sends nothing to the store or to the vector
\* backend, at any step, and the result it returns is empty.
C16_NonProductionDiffAsksNothing ==
    mode.caller = "main" /\ OnlyNonProduction =>
        /\ selection = NoSelection
        /\ issued.store = 0 /\ issued.vector = 0
        /\ pc = "done" => result.tests = <<>> /\ result.total_tests = 0

C16_Witness ==
    /\ pc = "done" /\ mode.caller = "main" /\ Combined
    /\ Len(file_changes) = 2
    /\ OnlyNonProduction
    /\ \E i \in 1..Len(file_changes) : IsSuffix(<<".py">>, file_changes[i].file)
    /\ result.total_tests = 0

\* the positions, in the emitted ranking, of the tests whose only reasons
\* are semantic
SemanticOnly ==
    {i \in 1..Len(result.tests) :
        ReasonTypes(result, result.tests[i].test_id) = {"semantic"}}

\* C17: in an emitted result, a test whose only match reasons are semantic
\* has a score of at most 60.
C17_SemanticOnlyAtMostCap ==
    pc = "done" =>
        \A i \in SemanticOnly : result.tests[i].confidence_score <= SEMANTIC_SCORE_CAP

C17_Witness ==
    /\ pc = "done"
    /\ \E i \in SemanticOnly : /\ result.tests[i].test_type = "unit"
                               /\ result.tests[i].similarity < 500
    /\ \E i \in SemanticOnly : /\ result.tests[i].test_type = "e2e"
                               /\ result.tests[i].similarity = 1000

\* C18: the score emitted for a test whose only reasons are semantic is its
\* cosine similarity times 60, floored to an integer.
C18_SemanticScoreIsSimilarityTimesCap ==
    pc = "done" =>
        \A i \in SemanticOnly :
            result.tests[i].confidence_score
                = (result.tests[i].similarity * SEMANTIC_SCORE_CAP) \div 1000

\* the positions of the tests that have a reason of strategies 0-3
NameBased ==
    {i \in 1..Len(result.tests) :
        ReasonTypes(result, result.tests[i].test_id)
            \cap {"function_level", "direct_file", "integration", "exact", "module"} # {}}

\* C19: in an emitted ranking, a test whose only reasons are semantic has
\* no higher score than any test with a reason of strategies 0-3, and
\* stands behind it.
C19_SemanticNeverOutranksNameBased ==
    pc = "done" =>
        \A i \in SemanticOnly : \A j \in NameBased :
            /\ result.tests[i].confidence_score <= result.tests[j].confidence_score
            /\ j < i

C19_Witness ==
    /\ pc = "done"
    /\ \E i \in SemanticOnly : result.tests[i].confidence_score = 15
    /\ \E j \in NameBased : result.tests[j].confidence_score < 100

(***************************************************************************)
(* calculate_confidence_score on its own: a list of match reasons grows by *)
(* one reason at a time, at any place, and is scored again.                *)
(***************************************************************************)
MaxReasons == 3

\* the kinds of match reason the score function tells apart, and some it
\* does not know
ReasonKinds ==
    {[type |-> "function_level"],
     [type |-> "exact", reference_type |-> "direct_import"],
     [type |-> "exact", reference_type |-> "string_ref"],
     [type |-> "exact", reference_type |-> "indirect"],
     [type |-> "exact"],
     [type |-> "direct_file"],
     [type |-> "integration"],
     [type |-> "module"],
     [type |-> "semantic", similarity |-> 900],
     [confidence |-> "low"]}

ScoredTypes == {"unit", "Unit", "integration", "e2e", "unknown", "", None}

InitScore ==
    /\ disk = {p \in AllDiskFiles : p[1] = TEST_REPO_ROOT}
    /\ registry_json = <<>>
    /\ deps_json = <<>>
    /\ function_calls_json = <<>>
    /\ rev_json = <<>>
    /\ metadata_json = <<>>
    /\ test_registry = {}
    /\ test_dependencies = EmptyBag
    /\ reverse_index = EmptyBag
    /\ test_metadata = {}
    /\ test_function_mapping = EmptyBag
    /\ assigned = {}
    /\ loaded = NothingLoaded
    /\ crash_expected = [deps |-> NoCrash, rev |-> NoCrash]
    /\ before_drop = [dropped |-> FALSE, built |-> FALSE, content |-> EmptyBag]
    /\ pending = [run \in Runs |-> Idle]
    /\ last_op = Op("init", "", "", {})
    /\ mode = NoMode
    /\ file_changes = <<>>
    /\ classes_first = <<>>
    /\ search_queries = NoRequest
    /\ vector_backend = NoBackend
    /\ pc = "idle"
    /\ selection = NoSelection
    /\ issued = NoneIssued
    /\ result = <<>>
    /\ before_semantic = NoSelection
    /\ \E test_type \in ScoredTypes :
          scoring = [matches |-> <<>>, test_type |-> test_type,
                     score |-> calculate_confidence_score(<<>>, test_type)]
    /\ commands = NoCommands
    /\ lookup = NoLookup
    /\ SideIdle

\* one more reason r, put after the first k reasons of the list
AddReason(r, k) ==
    /\ Len(scoring.matches) < MaxReasons
    /\ k <= Len(scoring.matches)
    /\ LET matches == SubSeq(scoring.matches, 1, k) \o <<r>>
                          \o SubSeq(scoring.matches, k + 1, Len(scoring.matches))
       IN  scoring' = [scoring EXCEPT
                          !.matches = matches,
                          !.score   = calculate_confidence_score(matches, scoring.test_type)]
    /\ UNCHANGED <<store_vars, mode, file_changes, classes_first, search_queries,
                   vector_backend, pc, selection, issued, result, before_semantic, commands, lookup, side_vars>>

NextScore == \E r \in ReasonKinds : \E k \in 0..(MaxReasons - 1) : AddReason(r, k)

SpecScore == InitScore /\ [][NextScore]_vars

\* C20: the score function is monotone: a list of match reasons with one
\* more reason scores at least what the list scored, for every test type.
C20_ScoreIsMonotone ==
    [][scoring'.score >= scoring.score]_vars

C20_Witness ==
    /\ Len(scoring.matches) = MaxReasons
    /\ Get(scoring.matches[1], "type", "") = "function_level"
    /\ Get(scoring.matches[2], "type", "") = "exact"
    /\ Get(scoring.matches[3], "type", "") = "semantic"
    /\ scoring.test_type = "Unit"
    /\ scoring.score = 100

\* the list being scored holds a function_level reason
HasFunctionLevel ==
    \E i \in 1..Len(scoring.matches) : Get(scoring.matches[i], "type", "") = "function_level"

\* C21: a test with a function_level reason scores at least 70, and at
\* least 85 when its test type is unit, whatever its other reasons.
C21_FunctionLevelFloor ==
    HasFunctionLevel =>
        /\ scoring.score >= 70
        /\ scoring.test_type \in {"unit", "Unit"} => scoring.score >= 85

C21_Witness ==
    /\ Len(scoring.matches) = 2
    /\ Get(scoring.matches[1], "type", "") = "semantic"
    /\ Get(scoring.matches[2], "type", "") = "function_level"
    /\ scoring.test_type = "unit"
    /\ scoring.score = 85

\* the same floor in the emitted results, with the test type the registry
\* holds for the test
C21_InEmittedResults ==
    pc = "done" =>
        \A i \in 1..Len(result.tests) :
            "function_level" \in ReasonTypes(result, result.tests[i].test_id) =>
                /\ result.tests[i].confidence_score >= 70
                /\ RegRow(result.tests[i].test_id).test_type = "unit" =>
                       result.tests[i].confidence_score >= 85

\* the node ids a command runs
PlanTests(cmd) ==
    IF cmd[1] # "pytest" THEN {} ELSE {cmd[i] : i \in 2..(Len(cmd) - 1)}

\* C22: for every scored result, the tests of run_fast are among those of
\* run_high, and the tests of run_high are among those of run_all.
C22_PlansAreNested ==
    pc = "shown" /\ commands # NoCommands =>
        /\ PlanTests(commands.run_fast) \subseteq PlanTests(commands.run_high)
        /\ PlanTests(commands.run_high) \subseteq PlanTests(commands.run_all)

C22_Witness ==
    /\ pc = "shown" /\ commands # NoCommands
    /\ PlanTests(commands.run_fast) # {}
    /\ PlanTests(commands.run_fast) # PlanTests(commands.run_high)
    /\ PlanTests(commands.run_high) # PlanTests(commands.run_all)
    /\ \E i \in SemanticOnly : IsUnit(result.tests[i])

\* C23: the emitted tests are sorted by score, highest first, and tests of
\* equal score by test_id, lowest first.
C23_SortedByScoreThenTestId ==
    pc = "done" =>
        \A i, j \in 1..Len(result.tests) :
            i < j =>
                \/ result.tests[i].confidence_score > result.tests[j].confidence_score
                \/ /\ result.tests[i].confidence_score = result.tests[j].confidence_score
                   /\ result.tests[i].test_id < result.tests[j].test_id

\* the first half alone: the scores never rise along the emitted list
C23_SortedByScore ==
    pc = "done" =>
        \A i, j \in 1..Len(result.tests) :
            i < j => result.tests[i].confidence_score >= result.tests[j].confidence_score

(***************************************************************************)
(* get_tests_for_production_class on its own, over small reverse indexes   *)
(***************************************************************************)
\* the tables, the artifacts and the disk as 01_create_tables leaves them
StoreIdle ==
    /\ disk = {p \in AllDiskFiles : p[1] = TEST_REPO_ROOT}
    /\ registry_json = <<>>
    /\ deps_json = <<>>
    /\ function_calls_json = <<>>
    /\ rev_json = <<>>
    /\ metadata_json = <<>>
    /\ test_registry = {}
    /\ test_dependencies = EmptyBag
    /\ reverse_index = EmptyBag
    /\ test_metadata = {}
    /\ test_function_mapping = EmptyBag
    /\ assigned = {}
    /\ loaded = NothingLoaded
    /\ crash_expected = [deps |-> NoCrash, rev |-> NoCrash]
    /\ before_drop = [dropped |-> FALSE, built |-> FALSE, content |-> EmptyBag]
    /\ pending = [run \in Runs |-> Idle]
    /\ last_op = Op("init", "", "", {})

\* no selector running
SelectorIdle ==
    /\ mode = NoMode
    /\ file_changes = <<>>
    /\ classes_first = <<>>
    /\ search_queries = NoRequest
    /\ vector_backend = NoBackend
    /\ pc = "idle"
    /\ selection = NoSelection
    /\ issued = NoneIssued
    /\ result = <<>>
    /\ before_semantic = NoSelection

MaxIndexRows == 3

\* module names with and without an underscore, and a function under them
ClassNames ==
    {<<"user">>, <<"user", "_", "api">>, <<"user", ".", "api">>,
     <<"user", "_", "api", ".", "get">>, <<"user", ".", "api", ".", "get">>}

IndexRows ==
    [production_class : ClassNames, test_id : {1, 2},
     reference_type : {"direct_import", "string_ref"}]

InitClass ==
    /\ StoreIdle
    /\ SelectorIdle
    /\ scoring = NoScoring
    /\ commands = NoCommands
    /\ SideIdle
    /\ \E table \in SUBSET IndexRows :
          /\ Cardinality(table) <= MaxIndexRows
          /\ lookup = [table |-> table, asked |-> None, returned |-> <<>>]

\* one call of get_tests_for_production_class
AskClass(production_class) ==
    /\ lookup' = [lookup EXCEPT !.asked = production_class,
                                !.returned = get_tests_in(lookup.table, production_class)]
    /\ UNCHANGED <<store_vars, side_vars, scoring, commands, mode, file_changes, classes_first,
                   search_queries, vector_backend, pc, selection, issued, result,
                   before_semantic>>

NextClass == \E production_class \in ClassNames : AskClass(production_class)

SpecClass == InitClass /\ [][NextClass]_vars

\* the rows of the table a class S stands for: those of S and those of a
\* name that starts with S and a dot
RowsOf(S) ==
    {r \in lookup.table : r.production_class = S \/ IsPrefix(S \o <<".">>, r.production_class)}

ReturnedIds == {lookup.returned[i].test_id : i \in 1..Len(lookup.returned)}

\* one row per test, with the reference type of a row of the test that
\* comes first by (exact match, string_ref)
OneBestRowPerTest(rows) ==
    /\ Len(lookup.returned) = Cardinality(ReturnedIds)
    /\ \A i \in 1..Len(lookup.returned) :
          \E r \in rows :
             /\ r.test_id = lookup.returned[i].test_id
             /\ r.reference_type = lookup.returned[i].reference_type
             /\ \A q \in rows :
                   q.test_id = r.test_id =>
                       /\ q.production_class = lookup.asked => r.production_class = lookup.asked
                       /\ (q.production_class = lookup.asked <=> r.production_class = lookup.asked)
                          /\ q.reference_type = "string_ref" => r.reference_type = "string_ref"

\* C24: the rows returned for a class S are those of exactly the tests
\* with a reverse_index row whose class is S or starts with S and a dot,
\* one row per test, the exact match first and then string_ref first.
C24_TestsForClassExactlyPrefixSet ==
    lookup.asked # None =>
        /\ ReturnedIds = {r.test_id : r \in RowsOf(lookup.asked)}
        /\ OneBestRowPerTest(RowsOf(lookup.asked))

\* what holds: no test of the set is missing, and the row of each returned
\* test is the best of the rows the query matched
C24_NoTestMissingOneRowEach ==
    lookup.asked # None =>
        /\ {r.test_id : r \in RowsOf(lookup.asked)} \subseteq ReturnedIds
        /\ OneBestRowPerTest({r \in lookup.table :
                                 \/ r.production_class = lookup.asked
                                 \/ Like(r.production_class, lookup.asked \o <<".", "%">>)})

(***************************************************************************)
(* parse_file: the one of the pipeline stages (test_analysis/utils/        *)
(* ast_parser.py) and PythonParser.parse_file (parsers/python_parser.py).  *)
(* A file is what each attempt to open and parse it meets: "ok", "locked"  *)
(* (PermissionError), "syntax" (SyntaxError) or "io_error" (any other      *)
(* exception).  Waits are in milliseconds.                                 *)
(***************************************************************************)
max_retries == 3
retry_delay == 500
BehaviourLen == 4

Outcomes == {"ok", "locked", "syntax", "io_error"}

RECURSIVE Pow2(_)
Pow2(n) == IF n = 0 THEN 1 ELSE 2 * Pow2(n - 1)

InitParse ==
    /\ StoreIdle
    /\ SelectorIdle
    /\ scoring = NoScoring
    /\ commands = NoCommands
    /\ lookup = NoLookup
    /\ parsers = NoParsers
    /\ command = NoCommand
    /\ embeddings = NoEmbeddings
    /\ extraction = NoExtraction
    /\ \E parser \in {"ast_parser", "PythonParser"} :
       \E behaviour \in [1..BehaviourLen -> Outcomes] :
          parsing = [parser |-> parser, behaviour |-> behaviour, attempt |-> 0,
                     waits |-> <<>>, returned |-> None, pc |-> "run"]

parse_frame == <<store_vars, mode, file_changes, classes_first, search_queries, vector_backend,
                 pc, selection, issued, result, before_semantic, scoring, commands, lookup,
                 parsers, command, embeddings, extraction>>

\* test_analysis/utils/ast_parser.parse_file: one attempt
parse_file ==
    /\ parsing.pc = "run"
    /\ parsing.parser = "ast_parser"
    /\ parsing' = [parsing EXCEPT
                      !.attempt  = 1,
                      !.returned = IF parsing.behaviour[1] = "ok" THEN "tree" ELSE None,
                      !.pc       = "done"]
    /\ UNCHANGED parse_frame

\* PythonParser.parse_file: one turn of "for attempt in range(max_retries)"
PythonParser_parse_file ==
    /\ parsing.pc = "run"
    /\ parsing.parser = "PythonParser"
    /\ LET attempt == parsing.attempt
           outcome == parsing.behaviour[attempt + 1]
       IN  IF attempt >= max_retries
           THEN parsing' = [parsing EXCEPT !.returned = None, !.pc = "done"]
           ELSE IF outcome = "ok"
           THEN parsing' = [parsing EXCEPT !.attempt = attempt + 1, !.returned = "tree",
                                           !.pc = "done"]
           ELSE IF outcome = "syntax"
           THEN parsing' = [parsing EXCEPT !.attempt = attempt + 1, !.returned = None,
                                           !.pc = "done"]
           ELSE IF attempt < max_retries - 1
           THEN parsing' = [parsing EXCEPT !.attempt = attempt + 1,
                                           !.waits = Append(@, retry_delay * Pow2(attempt))]
           ELSE parsing' = [parsing EXCEPT !.attempt = attempt + 1, !.returned = None,
                                           !.pc = "done"]
    /\ UNCHANGED parse_frame

NextParse == parse_file \/ PythonParser_parse_file

SpecParse == InitParse /\ [][NextParse]_vars

\* the attempts a retrying parse_file makes on a file: up to the first
\* attempt that is not a transient failure, three at most
ExpectedAttempts ==
    LET settled == {i \in 1..3 : parsing.behaviour[i] # "locked"}
    IN  IF settled = {} THEN 3 ELSE CHOOSE i \in settled : \A j \in settled : i <= j

\* a finished call that retried as it should: at most three attempts, a
\* wait of 0.5 s doubling between them, the tree when the last attempt
\* read and parsed the file and otherwise nothing; when the file met only
\* locks and parse results, the attempts stop at the first that is no lock
Retried ==
    /\ parsing.attempt <= 3
    /\ parsing.waits = [i \in 1..(parsing.attempt - 1) |-> 500 * Pow2(i - 1)]
    /\ parsing.returned = (IF parsing.behaviour[parsing.attempt] = "ok" THEN "tree" ELSE None)
    /\ (\A i \in 1..3 : parsing.behaviour[i] # "io_error") => parsing.attempt = ExpectedAttempts

\* C25: the parse_file of the pipeline stages retries a transient failure:
\* at most three attempts with waits of 0.5 s, 1 s between them, and it
\* returns nothing, without raising, on a permanent failure or when the
\* attempts are used up.
C25_PipelineParseFileRetries ==
    parsing.pc = "done" /\ parsing.parser = "ast_parser" => Retried

\* the same of PythonParser.parse_file
C25_PythonParserRetries ==
    parsing.pc = "done" /\ parsing.parser = "PythonParser" => Retried

(***************************************************************************)
(* ParserRegistry (parsers/registry.py).  parsers.parsers is _parsers      *)
(* (language -> parser), parsers.extensions is _extensions (extension ->   *)
(* language), parsers.warned the extensions the last register call warned  *)
(* about, parsers.registered the parsers registered so far.                *)
(***************************************************************************)
MaxRegistrations == 4

\* parser objects: two Python parsers (a later one that also takes .pyi
\* files), a Java parser, and one that takes both .py and .java
LanguageParsers ==
    {[id |-> 1, language_name |-> "python", file_extensions |-> <<".py">>],
     [id |-> 2, language_name |-> "python", file_extensions |-> <<".pyi", ".py">>],
     [id |-> 3, language_name |-> "java",   file_extensions |-> <<".java">>],
     [id |-> 4, language_name |-> "jython", file_extensions |-> <<".py", ".java">>]}

FileExtensions == {".py", ".pyi", ".java"}

InitRegistry ==
    /\ StoreIdle
    /\ SelectorIdle
    /\ scoring = NoScoring
    /\ commands = NoCommands
    /\ lookup = NoLookup
    /\ parsing = NoParsing
    /\ parsers = NoParsers
    /\ command = NoCommand
    /\ embeddings = NoEmbeddings
    /\ extraction = NoExtraction

\* the loop of register over the extensions of the parser
RECURSIVE MapExtensions(_, _, _)
MapExtensions(reg, language, exts) ==
    IF exts = <<>> THEN reg
    ELSE LET ext_lower == Head(exts)
             next == IF ext_lower \notin DOMAIN reg.extensions
                     THEN [reg EXCEPT !.extensions = (ext_lower :> language) @@ @]
                     ELSE IF reg.extensions[ext_lower] # language
                     THEN [reg EXCEPT !.extensions = (ext_lower :> language) @@ @,
                                      !.warned = @ \cup {ext_lower}]
                     ELSE reg
         IN  MapExtensions(next, language, Tail(exts))

\* ParserRegistry.register
register(parser) ==
    /\ Len(parsers.registered) < MaxRegistrations
    /\ LET language == parser.language_name
           stored   == [parsers EXCEPT !.parsers = (language :> parser) @@ @,
                                       !.warned = {},
                                       !.registered = Append(@, parser)]
       IN  parsers' = MapExtensions(stored, language, parser.file_extensions)
    /\ UNCHANGED <<store_vars, mode, file_changes, classes_first, search_queries, vector_backend,
                   pc, selection, issued, result, before_semantic, scoring, commands, lookup,
                   parsing, command, embeddings, extraction>>

\* no parser (None)
NoParser == [id |-> 0, language_name |-> None, file_extensions |-> <<>>]

\* ParserRegistry.get_parser, by extension
get_parser(reg, ext) ==
    IF ext \in DOMAIN reg.extensions
    THEN Get(reg.parsers, reg.extensions[ext], NoParser)
    ELSE NoParser

NextRegistry == \E parser \in LanguageParsers : register(parser)

SpecRegistry == InitRegistry /\ [][NextRegistry]_vars

Declares(parser, ext) == \E k \in 1..Len(parser.file_extensions) : parser.file_extensions[k] = ext

\* every extension is served by the parser registered last among those
\* that declare it
LastDeclaringWins(reg) ==
    \A ext \in FileExtensions :
        LET declaring == {i \in 1..Len(reg.registered) : Declares(reg.registered[i], ext)}
        IN  IF declaring = {} THEN get_parser(reg, ext) = NoParser
            ELSE get_parser(reg, ext)
                     = reg.registered[CHOOSE i \in declaring : \A j \in declaring : j <= i]

\* the registration warned about every extension whose parser it replaced
ReplacementsWarned(before, after) ==
    \A ext \in FileExtensions :
        (get_parser(before, ext) # NoParser /\ get_parser(after, ext) # get_parser(before, ext))
            => ext \in after.warned

\* C26: after any sequence of registrations an extension maps to the
\* parser registered last among those that declare it, and a registration
\* that replaces the parser of an extension prints a warning.
C26_LastRegistrationWinsWithWarning ==
    [][LastDeclaringWins(parsers') /\ ReplacementsWarned(parsers, parsers')]_vars

\* the same, for registrations in which no two parsers share a language
\* name
C26_WithDistinctLanguageNames ==
    [][(\A i, j \in 1..Len(parsers'.registered) :
           parsers'.registered[i].language_name = parsers'.registered[j].language_name
               => parsers'.registered[i] = parsers'.registered[j])
       => LastDeclaringWins(parsers') /\ ReplacementsWarned(parsers, parsers')]_vars

\* ---------------------------------------------------------------------------
\* Commands against an unreachable fact store
\* ---------------------------------------------------------------------------

\* the loader scripts that test the connection, read their artifact and load it
Loaders == {"02_load_test_registry", "03_load_dependencies", "04_load_reverse_index",
            "04b_load_function_mappings", "05_load_metadata", "06_load_structure"}

\* the maintenance flags of the selection command, each opening a connection
MaintenanceFlags == {"--verify", "--reindex", "--diagnose", "--deduplicate"}

\* the command lines: the selection command with its diff argument, the
\* maintenance flags, the loaders with their artifact, the verification script
CommandLines ==
    [name : {"git_diff_processor"}, input : {"given", "default", "missing", "none"}]
    \cup [name : MaintenanceFlags, input : {None}]
    \cup [name : Loaders, input : {"present", "missing"}]
    \cup [name : {"07_verify_data"}, input : {None}]

\* where main starts
FirstStep(name) ==
    IF name = "git_diff_processor" THEN "resolve"
    ELSE IF name \in MaintenanceFlags THEN "flag"
    ELSE "connect"

InitCommand ==
    /\ StoreIdle
    /\ SelectorIdle
    /\ scoring = NoScoring
    /\ commands = NoCommands
    /\ lookup = NoLookup
    /\ parsing = NoParsing
    /\ parsers = NoParsers
    /\ embeddings = NoEmbeddings
    /\ extraction = NoExtraction
    /\ \E line \in CommandLines, store \in {"up", "down"} :
          command = [NoCommand EXCEPT !.name = line.name, !.input = line.input,
                                      !.store = store, !.pc = FirstStep(line.name)]

\* the exit code of `if __name__ == "__main__": main()`: 0 when main returns,
\* 1 when an exception leaves it
PythonExit(raised) == IF raised THEN 1 ELSE 0

\* get_connection: the pool is created on first use; an unreachable store
\* raises out of it after one printed line
get_connection(c) ==
    IF c.store = "up"
    THEN [raised |-> FALSE, pool |-> TRUE, printed |-> <<>>]
    ELSE IF c.pool
         THEN [raised |-> TRUE, pool |-> TRUE, printed |-> <<"Database connection error">>]
         ELSE [raised |-> TRUE, pool |-> FALSE, printed |-> <<"Error creating connection pool">>]

\* test_connection: False with a printed error when the connection raises
test_connection(c) ==
    LET got == get_connection(c)
    IN  [ok |-> ~got.raised, pool |-> got.pool,
         printed |-> IF got.raised THEN got.printed \o <<"[ERROR] Connection failed">>
                     ELSE <<"[OK] Connected to database">>]

command_frame ==
    UNCHANGED <<store_vars, mode, file_changes, classes_first, search_queries, vector_backend,
                pc, selection, issued, result, before_semantic, scoring, commands, lookup,
                parsing, parsers, embeddings, extraction>>

\* main returns (raised = FALSE) or an exception leaves it (raised = TRUE)
Finish(c, raised) == [c EXCEPT !.pc = "done", !.exit_code = PythonExit(raised)]

\* main of the selection command, step 1: the diff path
ResolveDiffFile ==
    /\ command.pc = "resolve"
    /\ command' =
         IF command.input = "none"
         THEN Finish([command EXCEPT !.printed = @ \o <<"No diff file specified!">>], FALSE)
         ELSE [command EXCEPT !.pc = "connect"]
    /\ command_frame

\* `if not test_connection(): print(...); return` of the selection command,
\* of the loaders and of the verification script
TestConnection ==
    /\ command.pc = "connect"
    /\ LET t == test_connection(command)
           c == [command EXCEPT !.pool = t.pool, !.printed = @ \o t.printed]
       IN  command' =
             IF ~t.ok
             THEN Finish([c EXCEPT !.printed = @ \o <<"ERROR: Cannot connect to database!">>,
                                   !.failed_at = "connect"], FALSE)
             ELSE [c EXCEPT !.pc = IF c.name = "git_diff_processor" THEN "read"
                                   ELSE IF c.name \in Loaders THEN "load_json"
                                   ELSE "query"]
    /\ command_frame

\* the selection command reads the diff file
ReadDiffFile ==
    /\ command.pc = "read"
    /\ command' =
         IF command.input = "missing"
         THEN Finish([command EXCEPT !.printed = @ \o <<"ERROR: file not found">>], FALSE)
         ELSE [command EXCEPT !.pc = "query"]
    /\ command_frame

\* a loader reads its artifact
LoadJson ==
    /\ command.pc = "load_json"
    /\ command' =
         IF command.input = "missing"
         THEN Finish([command EXCEPT !.printed = @ \o <<"ERROR: file not found">>], FALSE)
         ELSE [command EXCEPT !.pc = "query"]
    /\ command_frame

\* `try: with get_connection() as conn: ... except Exception as e: print(ERROR);
\* traceback.print_exc()`, after which main returns
GuardedQuery ==
    /\ command.pc = "query"
    /\ LET got == get_connection(command)
           c   == [command EXCEPT !.pool = got.pool, !.printed = @ \o got.printed]
       IN  command' =
             IF got.raised
             THEN Finish([c EXCEPT !.printed = @ \o <<"ERROR: Database query failed", "Traceback">>,
                                   !.failed_at = "query"], FALSE)
             ELSE Finish(c, FALSE)
    /\ command_frame

\* a maintenance flag: `with get_connection() as conn: ...; return` with no
\* handler around it
MaintenanceFlag ==
    /\ command.pc = "flag"
    /\ LET got == get_connection(command)
           c   == [command EXCEPT !.pool = got.pool, !.printed = @ \o got.printed]
       IN  command' =
             IF got.raised
             THEN Finish([c EXCEPT !.printed = @ \o <<"Traceback">>, !.failed_at = "flag"], TRUE)
             ELSE Finish(c, FALSE)
    /\ command_frame

\* the environment: the store becomes unreachable while a command runs
StoreGoesDown ==
    /\ command.pc \notin {"idle", "done"}
    /\ command.store = "up"
    /\ command' = [command EXCEPT !.store = "down"]
    /\ command_frame

NextCommand ==
    \/ ResolveDiffFile
    \/ TestConnection
    \/ ReadDiffFile
    \/ LoadJson
    \/ GuardedQuery
    \/ MaintenanceFlag
    \/ StoreGoesDown

SpecCommand == InitCommand /\ [][NextCommand]_vars

\* the command found the store unreachable
StoreUnavailable == command.failed_at # None

\* the lines a command prints about an unreachable store
Diagnostics == {"Error creating connection pool", "Database connection error",
                "[ERROR] Connection failed", "ERROR: Cannot connect to database!",
                "ERROR: Database query failed"}

DiagnosticPrinted == \E i \in 1..Len(command.printed) : command.printed[i] \in Diagnostics

\* C27: a command that cannot reach the fact store is aborted and ends with a
\* non-zero exit code after printing a diagnostic.
C27_StoreUnavailableExitsNonZero ==
    (command.pc = "done" /\ StoreUnavailable)
        => (DiagnosticPrinted /\ command.exit_code # 0)

\* what the commands do: the command stops at the step that found the store
\* unreachable and a diagnostic is printed; only the maintenance flags end
\* with a non-zero exit code
C27_AbortedWithDiagnostic ==
    (command.pc = "done" /\ StoreUnavailable)
        => /\ DiagnosticPrinted
           /\ (command.exit_code # 0) <=> (command.name \in MaintenanceFlags)

\* a selection command that met an unreachable store and ended with exit code 0
C27_SelectionExitsZero ==
    /\ command.name = "git_diff_processor"
    /\ command.pc = "done"
    /\ StoreUnavailable
    /\ command.exit_code = 0

\* ---------------------------------------------------------------------------
\* Stage 3 over parsed test files
\* ---------------------------------------------------------------------------

MaxFiles == 2

\* class definitions a test file may hold: a test class and a plain class
ClassDefs ==
    [name : {"TestA", "Helper"}, bases : {<<>>},
     methods : {<<"setUp", "test_x">>, <<"test_x">>, <<"setUp">>}]

\* module-level function definitions a test file may hold
FunctionDefs == {<<>>, <<"test_z">>, <<"helper">>, <<"test_z", "helper">>}

\* the parsed test files: at most one class definition, and the functions
ParsedFiles == [classes : {<<>>} \cup {<<k>> : k \in ClassDefs}, functions : FunctionDefs]

\* the path of the i-th scanned file
ScannedPath(i) == RepoPath(TEST_REPO_ROOT) \o RelFiles[((i - 1) % Len(RelFiles)) + 1]

InitExtract ==
    /\ StoreIdle
    /\ SelectorIdle
    /\ scoring = NoScoring
    /\ commands = NoCommands
    /\ lookup = NoLookup
    /\ parsing = NoParsing
    /\ parsers = NoParsers
    /\ command = NoCommand
    /\ embeddings = NoEmbeddings
    /\ \E n \in 1..MaxFiles : \E files \in [1..n -> ParsedFiles] :
          extraction = [NoExtraction EXCEPT !.files = files]

\* one turn of the loop of build_test_registry: extract_tests_from_file on
\* the next scanned file, the counter carried on
ExtractNextFile ==
    /\ Len(extraction.per_file) < Len(extraction.files)
    /\ LET i  == Len(extraction.per_file) + 1
           ft == tests_of_parsed_file(extraction.files[i], ScannedPath(i), extraction.counter)
       IN  extraction' = [extraction EXCEPT !.per_file = Append(@, ft),
                                            !.counter = @ + Len(ft)]
    /\ UNCHANGED <<store_vars, mode, file_changes, classes_first, search_queries, vector_backend,
                   pc, selection, issued, result, before_semantic, scoring, commands, lookup,
                   parsing, parsers, command, embeddings>>

NextExtract == ExtractNextFile

SpecExtract == InitExtract /\ [][NextExtract]_vars

\* the test functions of a parsed file: the module-level functions named
\* test_*, and the test_* methods of its test classes
FreeTestFunctions(c) == SelectSeq(c.functions, StartsWithTestUnderscore)
TestClassMethods(c) ==
    LET tc == extract_test_classes(c)
    IN  Flatten([i \in 1..Len(tc) |-> ClassTests(tc[i])])

\* the number of rows of the i-th file for a class name and a method name
RowsFor(i, class_name, method_name) ==
    Cardinality({j \in 1..Len(extraction.per_file[i]) :
                    /\ extraction.per_file[i][j].class_name = class_name
                    /\ extraction.per_file[i][j].method_name = method_name})

Scanned == 1..Len(extraction.per_file)

EveryTestMethodOneRow(i) ==
    LET ms == TestClassMethods(extraction.files[i])
    IN  \A k \in 1..Len(ms) : RowsFor(i, ms[k].class_name, ms[k].method_name) = 1

EveryFreeFunctionOneRow(i) ==
    LET fs == FreeTestFunctions(extraction.files[i])
    IN  \A k \in 1..Len(fs) : RowsFor(i, None, fs[k]) = 1

\* C28: every test function of every scanned test file has exactly one Test
\* row, whether it is a method of a test class or a free function, and the
\* row of a free function has no class_name.
C28_EveryTestFunctionOneRow ==
    \A i \in Scanned : EveryTestMethodOneRow(i) /\ EveryFreeFunctionOneRow(i)

\* what stage 3 does: the methods of the test classes have one row each; the
\* free functions have one row each only in a file with no test class, and
\* none in a file that has one
C28_FreeFunctionsOnlyWithoutTestClass ==
    \A i \in Scanned :
       /\ EveryTestMethodOneRow(i)
       /\ IF extract_test_classes(extraction.files[i]) = <<>>
          THEN EveryFreeFunctionOneRow(i)
          ELSE \A k \in 1..Len(extraction.files[i].functions) :
                  RowsFor(i, None, extraction.files[i].functions[k]) = 0

\* a scanned file with a test class and a free test function
C28_TestClassAndFreeFunction ==
    \E i \in Scanned :
       /\ extract_test_classes(extraction.files[i]) # <<>>
       /\ FreeTestFunctions(extraction.files[i]) # <<>>

\* ---------------------------------------------------------------------------
\* Storing embeddings in a vector backend
\* ---------------------------------------------------------------------------

MaxStoreCalls == 2

\* the test ids and the embedding vectors of the calls
EmbeddedIds == 1..2
Vectors == [1..2 -> 0..1]

\* no embedding: generation failed (None), or nothing counted as stored yet
NoVector == <<>>

\* str(v) of a component, and the text '[v1,v2]' handed to the store
ComponentText(v) == IF v = 0 THEN "0.0" ELSE "1.0"

RECURSIVE JoinComma(_)
JoinComma(e) ==
    IF e = <<>> THEN <<>>
    ELSE IF Len(e) = 1 THEN <<ComponentText(e[1])>>
    ELSE <<ComponentText(e[1]), ",">> \o JoinComma(Tail(e))

embedding_to_pgvector(embedding) == <<"[">> \o JoinComma(embedding) \o <<"]">>

\* the cast %s::vector of the store: the components between the brackets
VectorCast(text) ==
    LET inner == SubSeq(text, 2, Len(text) - 1)
    IN  [i \in 1..((Len(inner) + 1) \div 2) |-> IF inner[2 * i - 1] = "0.0" THEN 0 ELSE 1]

\* the backend holds the vector under the test id, replacing what it held
Upsert(held, test_id, vector) == {h \in held : h[1] # test_id} \cup {<<test_id, vector>>}

\* PgVectorBackend.store_embeddings: one UPDATE of test_metadata per test,
\* counted as stored unless the statement raises
RECURSIVE PgStore(_, _, _, _, _)
PgStore(st, rows, tests, fails, i) ==
    IF i > Len(tests) THEN st
    ELSE LET test_id == tests[i].test_id
             vector  == VectorCast(embedding_to_pgvector(tests[i].embedding))
             next == IF i \in fails
                     THEN [st EXCEPT !.failed = @ + 1]
                     ELSE [st EXCEPT !.held = IF test_id \in rows
                                              THEN Upsert(@, test_id, vector)
                                              ELSE @,
                                     !.counted = (test_id :> tests[i].embedding) @@ @,
                                     !.stored = @ + 1]
         IN  PgStore(next, rows, tests, fails, i + 1)

\* collection.upsert of a list of ids
RECURSIVE UpsertAll(_, _, _)
UpsertAll(st, tests, i) ==
    IF i > Len(tests) THEN st
    ELSE UpsertAll([st EXCEPT !.held = Upsert(@, tests[i].test_id, tests[i].embedding),
                              !.counted = (tests[i].test_id :> tests[i].embedding) @@ @],
                   tests, i + 1)

\* the individual upserts after a failed batch
RECURSIVE UpsertEach(_, _, _, _)
UpsertEach(st, tests, fails, i) ==
    IF i > Len(tests) THEN st
    ELSE LET next == IF i \in fails
                     THEN [st EXCEPT !.failed = @ + 1]
                     ELSE [st EXCEPT !.held = Upsert(@, tests[i].test_id, tests[i].embedding),
                                     !.counted = (tests[i].test_id :> tests[i].embedding) @@ @,
                                     !.stored = @ + 1]
         IN  UpsertEach(next, tests, fails, i + 1)

\* ChromaDBBackend.store_embeddings: one batch upsert (the collection refuses
\* a batch naming an id twice), the individual upserts when it raises
ChromaStore(st, tests, batch_ok, fails) ==
    IF tests = <<>> THEN st
    ELSE IF batch_ok /\ \A i, j \in 1..Len(tests) : tests[i].test_id = tests[j].test_id => i = j
         THEN [UpsertAll(st, tests, 1) EXCEPT !.stored = Len(tests)]
         ELSE UpsertEach(st, tests, fails, 1)

\* the tests with their generated embeddings (NoVector: generation failed)
EmbeddedTests == [test_id : EmbeddedIds, embedding : Vectors \cup {NoVector}]

\* the lists of tests of a call: one test, or two
TestLists == {<<a>> : a \in EmbeddedTests} \cup {<<a, b>> : a, b \in EmbeddedTests}

InitEmbeddings ==
    /\ StoreIdle
    /\ SelectorIdle
    /\ scoring = NoScoring
    /\ commands = NoCommands
    /\ lookup = NoLookup
    /\ parsing = NoParsing
    /\ parsers = NoParsers
    /\ command = NoCommand
    /\ extraction = NoExtraction
    /\ \E backend \in {"pgvector", "chromadb"} :
       \E rows \in IF backend = "pgvector" THEN SUBSET EmbeddedIds ELSE {{}} :
          embeddings = [NoEmbeddings EXCEPT !.backend = backend, !.rows = rows,
                                            !.counted = [t \in EmbeddedIds |-> NoVector]]

\* store_embeddings of the generator: the tests whose embedding was generated
\* go to the backend; the failures of both steps are added up
store_embeddings(tests, batch_ok, fails) ==
    /\ embeddings.calls < MaxStoreCalls
    /\ LET valid == SelectSeq(tests, LAMBDA t : t.embedding # NoVector)
           st0   == [held |-> embeddings.held, counted |-> embeddings.counted,
                     stored |-> 0, failed |-> 0]
           st    == IF embeddings.backend = "pgvector"
                    THEN PgStore(st0, embeddings.rows, valid, fails, 1)
                    ELSE ChromaStore(st0, valid, batch_ok, fails)
       IN  embeddings' = [embeddings EXCEPT
                            !.held = st.held,
                            !.counted = st.counted,
                            !.returned = <<st.stored, (Len(tests) - Len(valid)) + st.failed>>,
                            !.calls = @ + 1]
    /\ UNCHANGED <<store_vars, mode, file_changes, classes_first, search_queries, vector_backend,
                   pc, selection, issued, result, before_semantic, scoring, commands, lookup,
                   parsing, parsers, command, extraction>>

NextEmbeddings ==
    \E tests \in TestLists :
    \E batch_ok \in BOOLEAN : \E fails \in SUBSET (1..Len(tests)) :
        store_embeddings(tests, batch_ok, fails)

SpecEmbeddings == InitEmbeddings /\ [][NextEmbeddings]_vars

HeldFor(test_id) == {h \in embeddings.held : h[1] = test_id}

\* C29: the backend holds at most one vector per test_id, and every test
\* counted as stored has its last counted vector held under its test_id,
\* whether or not the backend had an entry for it.
C29_StoreIsUpsertByTestId ==
    \A t \in EmbeddedIds :
       /\ Cardinality(HeldFor(t)) <= 1
       /\ embeddings.counted[t] # NoVector => HeldFor(t) = {<<t, embeddings.counted[t]>>}

\* what the backends do: ChromaDB upserts; pgvector updates the test_metadata
\* row of the test and holds nothing for a test that has no such row
C29_PgvectorOnlyUpdatesExistingRows ==
    \A t \in EmbeddedIds :
       /\ Cardinality(HeldFor(t)) <= 1
       /\ embeddings.counted[t] # NoVector =>
             IF embeddings.backend = "pgvector" /\ t \notin embeddings.rows
             THEN HeldFor(t) = {}
             ELSE HeldFor(t) = {<<t, embeddings.counted[t]>>}

\* a test counted as stored by pgvector that has no test_metadata row
C29_CountedWithoutRow ==
    /\ embeddings.backend = "pgvector"
    /\ \E t \in EmbeddedIds : t \notin embeddings.rows /\ embeddings.counted[t] # NoVector
    /\ embeddings.returned # <<>>
    /\ embeddings.returned[1] >= 1

\* ---------------------------------------------------------------------------
\* Duplicate removal: the dry run and the removing run after it
\* ---------------------------------------------------------------------------

RegistryIds(reg) == {r.test_id : r \in reg}

DryRunStep == last_op'.op = "remove_duplicate_tests" /\ last_op'.kind = "dry_run"

\* a removing run on the store a dry run has just reported on
RemovingAfterDryRun ==
    /\ last_op.op = "remove_duplicate_tests" /\ last_op.kind = "dry_run"
    /\ last_op'.op = "remove_duplicate_tests" /\ last_op'.kind = "remove"

\* C30: a dry run of the duplicate removal leaves every table unchanged, and
\* the test_ids it reports are exactly the test_ids that a removing run on
\* the same store deletes.
C30_DryRunReportsWhatRemovalDeletes ==
    [][/\ DryRunStep => UNCHANGED <<test_registry, children>>
       /\ RemovingAfterDryRun =>
             RegistryIds(test_registry) \ RegistryIds(test_registry') = last_op.ids]_vars

\* a dry run that reports duplicates of a loaded store
C30_Witness ==
    /\ last_op.op = "remove_duplicate_tests"
    /\ last_op.kind = "dry_run"
    /\ last_op.ids # {}
    /\ last_op.ids \subseteq RegistryIds(test_registry)
    /\ last_op.ids = test_ids_to_remove(test_registry)
    /\ test_metadata # {}

====
